---- MODULE Spec2Model ----
(***************************************************************************)
(* EngineReportingExtension: the per-request tracer of                     *)
(* apollo-engine-reporting.  One extension instance builds one Trace from  *)
(* the hooks of the request pipeline (requestDidStart, executionDidStart,  *)
(* willResolveField and its completion callback, didEncounterErrors, the   *)
(* end handler) and hands it to addTrace.                                  *)
(*                                                                         *)
(* Objects live in a heap: a Trace.Node is an index into `heap`, so that   *)
(* a closure or the registry holding a reference sees later writes.        *)
(* Optional values (undefined / null / unset protobuf fields) are the      *)
(* empty tuple <<>>; a present value v is <<v>>.                           *)
(***************************************************************************)
EXTENDS Integers, Sequences, FiniteSets, TLC

VARIABLES
  options,                \* this.options (constructor argument)
  req,                    \* the argument o of requestDidStart (request, variables, requestContext)
  phase,                  \* "created" -> "started" -> "ended": position of the pipeline
  trace,                  \* this.trace
  nodes,                  \* this.nodes: Map<string, Trace.Node>
  heap,                   \* the Trace.Node objects, by reference
  tick,                   \* the monotonic clock: index of the last process.hrtime reading
  pending,                \* completion callbacks returned by willResolveField and not yet called
  explicitOperationName,  \* this.explicitOperationName
  queryString,            \* this.queryString
  documentAST,            \* this.documentAST
  addTraceCalls,          \* the calls of this.addTrace, in order (trace passed by reference)
  env,                    \* the surroundings of this request: its resolvers' paths, its clock
  createdFor,             \* history: the path newNode was called with, per node
  completed,              \* history: nodes whose completion callback has run
  clientErrors,           \* the error objects given to didEncounterErrors: as given, and as they are now
  thisOperationName,      \* this.operationName (the earlier version of the class)
  peer,                   \* the fields of a second instance, serving another request, while it waits
  hookCalls               \* history: the hook calls made on this instance, when two requests are served

vars == <<options, req, phase, trace, nodes, heap, tick, pending,
          explicitOperationName, queryString, documentAST, addTraceCalls,
          env, createdFor, completed, clientErrors, thisOperationName,
          peer, hookCalls>>

None == <<>>
Some(v) == <<v>>

(***************************************************************************)
(* Bounds of the model.                                                    *)
(***************************************************************************)
MaxDepth == 3      \* longest response path
MaxNodes == 4      \* Trace.Node objects on the heap, the root included
MaxTick == 1       \* last reading of the monotonic clock
MaxErrors == 2     \* errors reported to didEncounterErrors

(***************************************************************************)
(* Maps (JS objects, Map) as functions over a finite key set.              *)
(***************************************************************************)
EmptyMap == [k \in {} |-> 0]

Put(m, k, v) == [x \in (DOMAIN m) \cup {k} |-> IF x = k THEN v ELSE m[x]]

(***************************************************************************)
(* Response paths.  graphql's ResponsePath is a linked list from the leaf  *)
(* to the root: {prev: ResponsePath | undefined, key: string | number}.    *)
(* A key is a field name or an array index.                                *)
(***************************************************************************)
FieldKey(name) == [isIndex |-> FALSE, name |-> name, num |-> 0]

IndexKey(num) == [isIndex |-> TRUE, name |-> "", num |-> num]

FieldNames == {"a", "b"}

Indices == {0}

Keys == {FieldKey(n) : n \in FieldNames} \cup {IndexKey(i) : i \in Indices}

\* The paths of exactly d keys; the first key of a response path is a field name.
RECURSIVE PathsOfDepth(_)
PathsOfDepth(d) ==
  IF d = 1
  THEN {[prev |-> None, key |-> FieldKey(n)] : n \in FieldNames}
  ELSE {[prev |-> Some(p), key |-> k] : p \in PathsOfDepth(d - 1), k \in Keys}

AllPaths == UNION {PathsOfDepth(d) : d \in 1..MaxDepth}

\* info.path of a resolver call: the path of a field, so its last key is a name.
FieldPaths == {p \in AllPaths : ~p.key.isIndex}

\* graphql's responsePathAsArray: the keys from the root to the leaf.
RECURSIVE responsePathAsArray(_)
responsePathAsArray(p) ==
  IF p.prev = None THEN <<p.key>>
  ELSE Append(responsePathAsArray(p.prev[1]), p.key)

\* String(key), as Array.prototype.join applies it to each element.
KeyToString(k) == IF k.isIndex THEN ToString(k.num) ELSE k.name

\* Array.prototype.join(sep) on an array of keys.
RECURSIVE JoinKeys(_, _)
JoinKeys(arr, sep) ==
  IF arr = <<>> THEN ""
  ELSE IF Len(arr) = 1 THEN KeyToString(arr[1])
  ELSE KeyToString(arr[1]) \o sep \o JoinKeys(Tail(arr), sep)

\* A key function that stops one segment short: the key of the parent's path.
responsePathAsStringOfPrev(p) ==
  IF p = None \/ p[1].prev = None THEN ""
  ELSE JoinKeys(responsePathAsArray(p[1].prev[1]), ".")

\* responsePathAsString(p), p an optional path (None is undefined).
responsePathAsString(p) ==
  IF p = None THEN "" ELSE JoinKeys(responsePathAsArray(p[1]), ".")

(***************************************************************************)
(* Trace.Node.  fieldName and index are the members of the protobuf oneof  *)
(* `id`: at most one is set.                                               *)
(***************************************************************************)
NewTraceNode ==
  [fieldName |-> None, index |-> None, type |-> "", parentType |-> "",
   startTime |-> 0, endTime |-> 0, child |-> <<>>, error |-> <<>>]

RootId == 1

(***************************************************************************)
(* newNode and ensureParentNode work on the builder state                  *)
(* b = [nodes, heap, createdFor] and return [b |-> the state after,        *)
(* node |-> the node returned].                                            *)
(***************************************************************************)
RECURSIVE newNode(_, _), ensureParentNode(_, _)

\* A newNode that registers the node and never links it to its parent.
newNodeUnlinked(b, path) ==
  LET id == path.key
      n == Len(b.heap) + 1
      node == IF id.isIndex
              THEN [NewTraceNode EXCEPT !.index = Some(id.num)]
              ELSE [NewTraceNode EXCEPT !.fieldName = Some(id.name)]
      b1 == [b EXCEPT !.heap = Append(@, node),
                      !.createdFor = Append(@, Some(path)),
                      !.nodes = Put(@, responsePathAsString(Some(path)), n)]
  IN [b |-> ensureParentNode(b1, path).b, node |-> n]

\* A newNode that sets the field name on every node, the index besides it.
newNodeAlwaysNamed(b, path) ==
  LET id == path.key
      n == Len(b.heap) + 1
      node == IF id.isIndex
              THEN [NewTraceNode EXCEPT !.index = Some(id.num),
                                        !.fieldName = Some(KeyToString(id))]
              ELSE [NewTraceNode EXCEPT !.fieldName = Some(id.name)]
      b1 == [b EXCEPT !.heap = Append(@, node),
                      !.createdFor = Append(@, Some(path)),
                      !.nodes = Put(@, responsePathAsString(Some(path)), n)]
      r == ensureParentNode(b1, path)
  IN [b |-> [r.b EXCEPT !.heap[r.node].child = Append(@, n)], node |-> n]

newNode(b, path) ==
  LET id == path.key
      n == Len(b.heap) + 1
      node == IF id.isIndex
              THEN [NewTraceNode EXCEPT !.index = Some(id.num)]
              ELSE [NewTraceNode EXCEPT !.fieldName = Some(id.name)]
      b1 == [b EXCEPT !.heap = Append(@, node),
                      !.createdFor = Append(@, Some(path)),
                      !.nodes = Put(@, responsePathAsString(Some(path)), n)]
      r == ensureParentNode(b1, path)
  IN [b |-> [r.b EXCEPT !.heap[r.node].child = Append(@, n)], node |-> n]

\* An ensureParentNode that does not find the root entry and makes a parent
\* for the path before the first key.
ensureParentNodeMissesRoot(b, path) ==
  LET parentPath == responsePathAsString(path.prev)
  IN IF path.prev = None
     THEN [b |-> [b EXCEPT !.heap = Append(@, NewTraceNode),
                           !.createdFor = Append(@, None),
                           !.nodes = Put(@, parentPath, Len(b.heap) + 1)],
           node |-> Len(b.heap) + 1]
     ELSE IF parentPath \in DOMAIN b.nodes
     THEN [b |-> b, node |-> b.nodes[parentPath]]
     ELSE newNode(b, path.prev[1])

ensureParentNode(b, path) ==
  LET parentPath == responsePathAsString(path.prev)
  IN IF parentPath \in DOMAIN b.nodes
     THEN [b |-> b, node |-> b.nodes[parentPath]]
     ELSE newNode(b, path.prev[1])

\* The nodes one willResolveField call on `path` adds to the heap.
RECURSIVE MissingOnPath(_, _)
MissingOnPath(reg, path) ==
  IF path.prev = None \/ responsePathAsString(path.prev) \in DOMAIN reg THEN 1
  ELSE 1 + MissingOnPath(reg, path.prev[1])

(***************************************************************************)
(* Time.  process.hrtime(start) is a pair [seconds, nanoseconds]; the      *)
(* clock's readings are the deltas HrTime(0), HrTime(1), ... from the      *)
(* baseline taken in requestDidStart.                                      *)
(***************************************************************************)
NanosPerSecond == 1000000000

\* The i-th reading: i half seconds after the baseline.
HrTime(i) == <<i \div 2, (i % 2) * (NanosPerSecond \div 2)>>

durationHrTimeToNanos(hrtime) == hrtime[1] * NanosPerSecond + hrtime[2]

\* new Date() as milliseconds since the epoch: the wall clock, read independently.
WallClockMillis == {1500}

dateToTimestamp(totalMillis) ==
  LET millis == totalMillis % 1000
  IN [seconds |-> (totalMillis - millis) \div 1000, nanos |-> millis * 1000000]


(***************************************************************************)
(* HTTP request headers.  The Headers collection holds its names in lower  *)
(* case; an exception list of the configuration is compared to them after  *)
(* String.prototype.toLowerCase on both sides.                             *)
(***************************************************************************)
\* A toLowerCase that returns its argument as written.
toLowerCaseUnchanged(s) == s

toLowerCase(s) ==
  CASE s = "Authorization" -> "authorization"
    [] s = "AUTHORIZATION" -> "authorization"
    [] s = "Cookie" -> "cookie"
    [] s = "Set-Cookie" -> "set-cookie"
    [] s = "X-Api-Key" -> "x-api-key"
    [] s = "X-API-KEY" -> "x-api-key"
    [] s = "Accept" -> "accept"
    [] OTHER -> s

\* new Headers(init): the names of `raw` lower-cased (the names of `raw` differ
\* after lower-casing, so no two values are joined).
HeadersOf(raw) ==
  [k \in {toLowerCase(n) : n \in DOMAIN raw} |->
     raw[CHOOSE n \in DOMAIN raw : toLowerCase(n) = k]]

\* Headers.get(name): the value, or None for null.
HeadersGet(headers, name) ==
  IF toLowerCase(name) \in DOMAIN headers
  THEN Some(headers[toLowerCase(name)]) ELSE None

NoSendHeaders == [tag |-> "undefined", safelistAll |-> None, except |-> None]

SendHeadersSafelistAll(flag) ==
  [tag |-> "object", safelistAll |-> Some(flag), except |-> None]

SendHeadersExcept(names) ==
  [tag |-> "object", safelistAll |-> None, except |-> Some(names)]

\* A deprecated privateHeaders / privateVariables option: Array<String> | boolean.
NoPrivate == [tag |-> "undefined", flag |-> FALSE, list |-> {}]

NullPrivate == [tag |-> "null", flag |-> FALSE, list |-> {}]

PrivateBool(flag) == [tag |-> "boolean", flag |-> flag, list |-> {}]

PrivateList(names) == [tag |-> "array", flag |-> FALSE, list |-> names]

\* x == null / x != null in JS.
IsNullish(x) == x.tag \in {"undefined", "null"}

\* makeHTTPRequestHeaders without the switch that drops the three sensitive headers.
makeHTTPRequestHeadersNoSwitch(requestHeaders, headers, sendHeaders) ==
  IF IsNullish(sendHeaders) THEN requestHeaders
  ELSE IF sendHeaders.safelistAll # None /\ ~sendHeaders.safelistAll[1]
  THEN requestHeaders
  ELSE LET skipped(key) ==
             /\ sendHeaders.except # None
             /\ \E exceptHeader \in sendHeaders.except[1] :
                  toLowerCase(exceptHeader) = toLowerCase(key)
           recorded == {key \in DOMAIN headers : ~skipped(key)}
       IN [key \in (DOMAIN requestHeaders) \cup recorded |->
             IF key \in recorded THEN [value |-> <<headers[key]>>]
             ELSE requestHeaders[key]]

\* makeHTTPRequestHeaders(http, headers, sendHeaders): http.requestHeaders after the call.
makeHTTPRequestHeaders(requestHeaders, headers, sendHeaders) ==
  IF IsNullish(sendHeaders) THEN requestHeaders
  ELSE IF sendHeaders.safelistAll # None /\ ~sendHeaders.safelistAll[1]
  THEN requestHeaders
  ELSE LET skipped(key) ==
             /\ sendHeaders.except # None
             /\ \E exceptHeader \in sendHeaders.except[1] :
                  toLowerCase(exceptHeader) = toLowerCase(key)
           recorded == {key \in DOMAIN headers :
                          /\ ~skipped(key)
                          /\ key \notin {"authorization", "cookie", "set-cookie"}}
       IN [key \in (DOMAIN requestHeaders) \cup recorded |->
             IF key \in recorded THEN [value |-> <<headers[key]>>]
             ELSE requestHeaders[key]]

\* A legacy conversion that reads privateHeaders: true as "send every header".
makeHTTPRequestHeadersLegacyNotNegated(requestHeaders, headers, privateHeaders) ==
  LET sendHeaders == IF privateHeaders.tag = "array"
                     THEN SendHeadersExcept(privateHeaders.list)
                     ELSE SendHeadersSafelistAll(privateHeaders.flag)
  IN makeHTTPRequestHeaders(requestHeaders, headers, sendHeaders)

makeHTTPRequestHeadersLegacy(requestHeaders, headers, privateHeaders) ==
  LET sendHeaders == IF privateHeaders.tag = "array"
                     THEN SendHeadersExcept(privateHeaders.list)
                     ELSE SendHeadersSafelistAll(~privateHeaders.flag)
  IN makeHTTPRequestHeaders(requestHeaders, headers, sendHeaders)

\* Trace.HTTP.Method[method] || Trace.HTTP.Method.UNKNOWN, by the enum's names.
HTTPMethod(method) ==
  IF method \in {"OPTIONS", "GET", "HEAD", "POST", "PUT", "DELETE", "TRACE",
                 "CONNECT", "PATCH"}
  THEN method ELSE "UNKNOWN"


(***************************************************************************)
(* Variable values and their JSON encoding.                                *)
(***************************************************************************)
NumberValue(n) == [t |-> "number", n |-> n, s |-> ""]

StringValue(s) == [t |-> "string", n |-> 0, s |-> s]

NullValue == [t |-> "null", n |-> 0, s |-> ""]

UndefinedValue == [t |-> "undefined", n |-> 0, s |-> ""]

\* An object that refers to itself: JSON.stringify throws a TypeError on it.
CyclicValue == [t |-> "cyclic", n |-> 0, s |-> ""]

\* JSON.stringify(v): [throws, out]; out is None when the call returns undefined.
\* The sample strings hold no character that JSON escapes.
JSONstringify(v) ==
  CASE v.t = "number" -> [throws |-> FALSE, out |-> Some(ToString(v.n))]
    [] v.t = "string" -> [throws |-> FALSE, out |-> Some("\"" \o v.s \o "\"")]
    [] v.t = "null" -> [throws |-> FALSE, out |-> Some("null")]
    [] v.t = "undefined" -> [throws |-> FALSE, out |-> None]
    [] v.t = "cyclic" -> [throws |-> TRUE, out |-> None]

UnableToConvert == "[Unable to convert value to JSON]"

NoSendVariableValues ==
  [tag |-> "undefined", safelistAll |-> None, exceptVariableNames |-> None,
   valueModifier |-> None]

NullSendVariableValues ==
  [tag |-> "null", safelistAll |-> None, exceptVariableNames |-> None,
   valueModifier |-> None]

SendVariablesSafelistAll(flag) ==
  [tag |-> "object", safelistAll |-> Some(flag), exceptVariableNames |-> None,
   valueModifier |-> None]

SendVariablesExcept(names) ==
  [tag |-> "object", safelistAll |-> None, exceptVariableNames |-> Some(names),
   valueModifier |-> None]

\* {valueModifier: f}: f is given by the object it returns for this request's variables.
SendVariablesModifier(result) ==
  [tag |-> "object", safelistAll |-> None, exceptVariableNames |-> None,
   valueModifier |-> Some(result)]

\* obj[name] on a JS object: undefined for a missing key.
GetProperty(obj, name) ==
  IF name \in DOMAIN obj THEN obj[name] ELSE UndefinedValue

\* A cleanModifiedVariables that returns the modifier's object as it is.
cleanModifiedVariablesUnfiltered(originalKeys, modifiedVariables) == modifiedVariables

cleanModifiedVariables(originalKeys, modifiedVariables) ==
  [name \in originalKeys |-> GetProperty(modifiedVariables, name)]

\* A RecordedValue without the try/catch: the TypeError of JSON.stringify escapes.
RecordedValueUncaught(value) ==
  IF value.t \in {"null", "undefined"} THEN ""
  ELSE IF JSONstringify(value).throws THEN "TypeError: Converting circular structure to JSON"
  ELSE JSONstringify(value).out[1]

\* The value makeTraceDetails records for one variable that is not redacted.
RecordedValue(value) ==
  IF value.t \in {"null", "undefined"} THEN ""
  ELSE IF JSONstringify(value).throws
  THEN JSONstringify(StringValue(UnableToConvert)).out[1]
  ELSE JSONstringify(value).out[1]

\* A makeTraceDetails that redacts nothing when no option is given.
makeTraceDetailsSendsByDefault(variables, sendVariableValues, operationString) ==
  LET redacted(name) ==
        /\ ~IsNullish(sendVariableValues)
        /\ \/ sendVariableValues.safelistAll # None /\ ~sendVariableValues.safelistAll[1]
           \/ /\ sendVariableValues.exceptVariableNames # None
              /\ name \in sendVariableValues.exceptVariableNames[1]
  IN [variablesJson |->
        [name \in DOMAIN variables |->
           IF redacted(name) THEN "" ELSE RecordedValue(variables[name])]]

\* makeTraceDetails(variables, sendVariableValues, operationString): the Trace.Details.
makeTraceDetails(variables, sendVariableValues, operationString) ==
  LET variablesToRecord ==
        IF ~IsNullish(sendVariableValues) /\ sendVariableValues.valueModifier # None
        THEN cleanModifiedVariables(DOMAIN variables,
                                    sendVariableValues.valueModifier[1])
        ELSE variables
      redacted(name) ==
        \/ IsNullish(sendVariableValues)
        \/ sendVariableValues.safelistAll # None /\ ~sendVariableValues.safelistAll[1]
        \/ /\ sendVariableValues.exceptVariableNames # None
           /\ name \in sendVariableValues.exceptVariableNames[1]
  IN [variablesJson |->
        [name \in DOMAIN variablesToRecord |->
           IF redacted(name) THEN "" ELSE RecordedValue(variablesToRecord[name])]]

\* A makeTraceDetailsLegacy that passes the boolean on as it is.
makeTraceDetailsLegacyNotNegated(variables, privateVariables) ==
  LET newArguments == IF privateVariables.tag = "array"
                      THEN SendVariablesExcept(privateVariables.list)
                      ELSE SendVariablesSafelistAll(privateVariables.flag)
  IN makeTraceDetails(variables, newArguments, None)

makeTraceDetailsLegacy(variables, privateVariables) ==
  LET newArguments == IF privateVariables.tag = "array"
                      THEN SendVariablesExcept(privateVariables.list)
                      ELSE SendVariablesSafelistAll(~privateVariables.flag)
  IN makeTraceDetails(variables, newArguments, None)


(***************************************************************************)
(* Client identity.                                                        *)
(***************************************************************************)
clientNameHeaderKey == "apollographql-client-name"

clientReferenceIdHeaderKey == "apollographql-client-reference-id"

clientVersionHeaderKey == "apollographql-client-version"

\* A JS string-or-missing used as a condition: '' , null and undefined are falsy.
Truthy(optString) == optString # None /\ optString[1] # ""

\* String(x) in place of x || '': a missing value becomes 'undefined'.
OrUndefinedText(optString) == IF Truthy(optString) THEN optString[1] ELSE "undefined"

\* x || '' for a string-or-missing x.
OrEmpty(optString) == IF Truthy(optString) THEN optString[1] ELSE ""

ClientInfo(name, version, referenceId) ==
  [clientName |-> name, clientVersion |-> version, clientReferenceId |-> referenceId]

\* defaultGenerateClientInfo({request}): the object returned ({} has no field set).
defaultGenerateClientInfo(request) ==
  IF \/ Truthy(HeadersGet(request.headers, clientNameHeaderKey))
     \/ Truthy(HeadersGet(request.headers, clientVersionHeaderKey))
     \/ Truthy(HeadersGet(request.headers, clientReferenceIdHeaderKey))
  THEN Some(ClientInfo(HeadersGet(request.headers, clientNameHeaderKey),
                       HeadersGet(request.headers, clientVersionHeaderKey),
                       HeadersGet(request.headers, clientReferenceIdHeaderKey)))
  ELSE IF request.extensions # None /\ request.extensions[1].clientInfo # None
  THEN request.extensions[1].clientInfo
  ELSE Some(ClientInfo(None, None, None))

\* options.generateClientInfo || defaultGenerateClientInfo, applied to the request:
\* a configured hook is given by the value it returns (None: nothing returned).
generateClientInfo(opts, request) ==
  IF opts.generateClientInfo # None THEN opts.generateClientInfo[1]
  ELSE defaultGenerateClientInfo(request)

(***************************************************************************)
(* Errors.  A GraphQLError carries a message, an optional path (an array   *)
(* of keys), its locations and optional extensions.  The rewriteError      *)
(* hook of the options is given by what it does with the object it is      *)
(* called with (the fields it assigns) and by what it returns: null, a     *)
(* value that is no GraphQLError, the object it was called with, or a      *)
(* GraphQLError with its own message, path and extensions.                 *)
(***************************************************************************)
GraphQLError(message, path, locations, extensions) ==
  [message |-> message, path |-> path, locations |-> locations,
   extensions |-> extensions]

HookReturnsNull == [returns |-> "null", message |-> "", path |-> None, extensions |-> None]

HookReturnsOther == [returns |-> "other", message |-> "", path |-> None, extensions |-> None]

HookReturnsError(message, path, extensions) ==
  [returns |-> "error", message |-> message, path |-> path, extensions |-> extensions]

\* return err: the hook returns the object it was called with.
HookReturnsArgument ==
  [returns |-> "argument", message |-> "", path |-> None, extensions |-> None]

\* The fields a hook assigns on the object it is called with: None for a field
\* it leaves alone, Some(v) for err.field = v.
Assignment(message, path, extensions) ==
  [message |-> message, path |-> path, extensions |-> extensions]

NoAssignment == Assignment(None, None, None)

\* A hook that first assigns fields of its argument and then goes on as `then`.
HookAssigns(assigned, then) ==
  [returns |-> then.returns, message |-> then.message, path |-> then.path,
   extensions |-> then.extensions, assigns |-> assigned]

\* A hook that looks at the message of the error: table[message] is what it does.
HookByMessage(table) == [returns |-> "byMessage", table |-> table]

\* What the configured hook does when called with an error of this message.
HookFor(hook, message) ==
  IF hook.returns = "byMessage" THEN hook.table[message] ELSE hook

AssignsOf(hook) == IF "assigns" \in DOMAIN hook THEN hook.assigns ELSE NoAssignment

\* The object the hook was called with, after the hook's assignments.
AfterAssignments(hook, value) ==
  LET assigned == AssignsOf(hook)
  IN [value EXCEPT
        !.message = IF assigned.message # None THEN assigned.message[1] ELSE @,
        !.path = IF assigned.path # None THEN assigned.path[1] ELSE @,
        !.extensions = IF assigned.extensions # None THEN assigned.extensions[1] ELSE @]

\* A rewriteError that hands the error object itself to the hook.
clonedErrorIsErr(err) == [object |-> "err", value |-> err]

\* Object.assign(Object.create(Object.getPrototypeOf(err)), err): another object,
\* with the fields of err.
clonedError(err) == [object |-> "clonedError", value |-> err]

\* A rewriteError that reports what the hook returned, whatever it is.
rewriteErrorTrustsHook(opts, err) ==
  IF opts.rewriteError = None THEN [report |-> Some(err), err |-> err]
  ELSE LET hook == HookFor(opts.rewriteError[1], err.message)
           argument == AfterAssignments(hook, err)
       IN IF hook.returns = "null" THEN [report |-> None, err |-> err]
          ELSE IF hook.returns = "error"
          THEN [report |-> Some(GraphQLError(hook.message, hook.path, err.locations,
                                             hook.extensions)),
                err |-> err]
          ELSE [report |-> Some(argument), err |-> err]

\* rewriteError(err): report is None for null, or the error to report; err is
\* the error object passed in, as it is after the call.
rewriteError(opts, err) ==
  IF opts.rewriteError = None THEN [report |-> Some(err), err |-> err]
  ELSE LET argument == clonedError(err)
           hook == HookFor(opts.rewriteError[1], argument.value.message)
           argumentAfter == AfterAssignments(hook, argument.value)
           errAfter == IF argument.object = "err" THEN argumentAfter ELSE err
           rewrittenError ==
             IF hook.returns = "argument" THEN argumentAfter
             ELSE GraphQLError(hook.message, hook.path, None, hook.extensions)
       IN IF hook.returns = "null" THEN [report |-> None, err |-> errAfter]
          ELSE IF hook.returns \notin {"error", "argument"}
          THEN [report |-> Some(errAfter), err |-> errAfter]
          ELSE [report |->
                  Some(GraphQLError(rewrittenError.message, errAfter.path,
                                    errAfter.locations,
                                    IF rewrittenError.extensions # None
                                    THEN rewrittenError.extensions
                                    ELSE errAfter.extensions)),
                err |-> errAfter]

\* new Trace.Error({message, location, json}); json holds the enumerable fields
\* JSON.stringify(error) serialises.
TraceError(error) ==
  [message |-> error.message,
   location |-> IF error.locations = None THEN <<>> ELSE error.locations[1],
   json |-> [message |-> error.message, locations |-> error.locations,
             path |-> error.path, extensions |-> error.extensions]]

\* An addError that puts every error on the root node.
addErrorOnRoot(reg, hp, error) ==
  [hp EXCEPT ![reg[""]].error = Append(@, TraceError(error))]

\* addError(error): the heap after the error is pushed on its node.
addError(reg, hp, error) ==
  LET specific == IF error.path # None THEN JoinKeys(error.path[1], ".") ELSE ""
      node == IF error.path # None /\ specific \in DOMAIN reg
              THEN reg[specific] ELSE reg[""]
  IN [hp EXCEPT ![node].error = Append(@, TraceError(error))]

\* A didEncounterErrors that leaves the loop at the first error the hook buries.
RECURSIVE didEncounterErrorsStopsAtNull(_, _, _, _)
didEncounterErrorsStopsAtNull(opts, reg, hp, errors) ==
  IF errors = <<>> THEN [heap |-> hp, errors |-> <<>>]
  ELSE LET rewritten == rewriteError(opts, Head(errors))
       IN IF rewritten.report = None
          THEN [heap |-> hp, errors |-> <<rewritten.err>> \o Tail(errors)]
          ELSE LET rest == didEncounterErrorsStopsAtNull(
                             opts, reg, addError(reg, hp, rewritten.report[1]),
                             Tail(errors))
               IN [heap |-> rest.heap, errors |-> <<rewritten.err>> \o rest.errors]

\* errors.forEach(err => ...) of didEncounterErrors: the heap after the batch, and
\* the error objects of the batch as they are after it.
RECURSIVE didEncounterErrors(_, _, _, _)
didEncounterErrors(opts, reg, hp, errors) ==
  IF errors = <<>> THEN [heap |-> hp, errors |-> <<>>]
  ELSE LET rewritten == rewriteError(opts, Head(errors))
           errorForReporting == rewritten.report
           hp1 == IF errorForReporting = None THEN hp
                  ELSE addError(reg, hp, errorForReporting[1])
           rest == didEncounterErrors(opts, reg, hp1, Tail(errors))
       IN [heap |-> rest.heap, errors |-> <<rewritten.err>> \o rest.errors]

(***************************************************************************)
(* The extension instance.                                                 *)
(***************************************************************************)
\* new Trace(), with the root the constructor sets.
NewTrace ==
  [startTime |-> None, endTime |-> None, durationNs |-> 0, root |-> RootId,
   http |-> None, details |-> None,
   clientName |-> "", clientVersion |-> "", clientReferenceId |-> "",
   fullQueryCacheHit |-> FALSE, forbiddenOperation |-> FALSE,
   registeredOperation |-> FALSE,
   persistedQueryHit |-> FALSE, persistedQueryRegister |-> FALSE]

Options(sendH, privateH, sendV, privateV, rewriteErrorHook, clientInfoHook) ==
  [sendHeaders |-> sendH, privateHeaders |-> privateH,
   sendVariableValues |-> sendV, privateVariables |-> privateV,
   rewriteError |-> rewriteErrorHook, generateClientInfo |-> clientInfoHook]

Metrics(hit, register) ==
  [persistedQueryHit |-> hit, persistedQueryRegister |-> register,
   responseCacheHit |-> FALSE, forbiddenOperation |-> FALSE,
   registeredOperation |-> FALSE]

\* The argument of requestDidStart, with the request context it refers to.
RequestArg(method, rawHeaders, variables, metrics, operationName) ==
  [method |-> method, headers |-> HeadersOf(rawHeaders), variables |-> variables,
   queryString |-> Some("query Q { a b }"), parsedQuery |-> None,
   extensions |-> None, metrics |-> metrics, queryHash |-> "hash",
   operationName |-> operationName, document |-> Some("document"),
   url |-> "/graphql"]

\* The constructor, for the given options and request: the fields of the new
\* instance.
ConstructedInstance(optionSet, requestSet, envSet) ==
  /\ options \in optionSet
  /\ req \in requestSet
  /\ phase = "created"
  /\ trace = NewTrace
  /\ nodes = Put(EmptyMap, responsePathAsString(None), RootId)
  /\ heap = <<NewTraceNode>>
  /\ tick = 0
  /\ pending = {}
  /\ explicitOperationName = None
  /\ queryString = None
  /\ documentAST = None
  /\ addTraceCalls = <<>>
  /\ createdFor = <<None>>
  /\ completed = {}
  /\ clientErrors = <<>>
  /\ thisOperationName = None
  /\ env \in envSet

\* No second instance.
NoPeer == [phase |-> "absent"]

\* A second instance as its constructor leaves it.
NewInstance ==
  [phase |-> "created", trace |-> NewTrace,
   nodes |-> Put(EmptyMap, responsePathAsString(None), RootId),
   heap |-> <<NewTraceNode>>, tick |-> 0, pending |-> {},
   explicitOperationName |-> None, queryString |-> None, documentAST |-> None,
   addTraceCalls |-> <<>>, createdFor |-> <<None>>, completed |-> {},
   clientErrors |-> <<>>, thisOperationName |-> None, hookCalls |-> <<>>]

\* The state every specification of one request starts from.
Constructed(optionSet, requestSet, envSet) ==
  /\ ConstructedInstance(optionSet, requestSet, envSet)
  /\ peer = NoPeer
  /\ hookCalls = <<>>

\* Two instances constructed for two requests with the same options.
ConstructedTwice(optionSet, requestSet, envSet) ==
  /\ ConstructedInstance(optionSet, requestSet, envSet)
  /\ peer = NewInstance
  /\ hookCalls = <<>>

\* Two requests are being served.
TwoRequests == peer # NoPeer

\* One hook call on an instance: the hook, the path or the node it is about,
\* and the reading of the clock.
HookCall(hook, path, node, t) == [hook |-> hook, path |-> path, node |-> node, t |-> t]

\* The history of this instance's hook calls after `call`.
Logged(call) == IF TwoRequests THEN Append(hookCalls, call) ELSE hookCalls

\* The surroundings of one request: the response paths its resolvers are called
\* with, the last reading its monotonic clock reaches, and whether hooks still
\* arrive after the end handler (a resolver that settles after the response),
\* and the errors its execution may report.
Env(paths, lastTick, afterEnd, errors) ==
  [paths |-> paths, lastTick |-> lastTick, afterEnd |-> afterEnd, errors |-> errors]

\* The pipeline calls requestDidStart before every other hook.
HookMayArrive == phase = "started" \/ (phase = "ended" /\ env.afterEnd)

\* A requestDidStart that lets the deprecated option decide whenever it is set.
RequestDidStartDeprecatedFirst ==
  /\ phase = "created"
  /\ \E now \in WallClockMillis :
       LET requestHeaders ==
             IF ~IsNullish(options.privateHeaders)
             THEN makeHTTPRequestHeadersLegacy(EmptyMap, req.headers,
                                               options.privateHeaders)
             ELSE IF options.sendHeaders.tag = "object"
             THEN makeHTTPRequestHeaders(EmptyMap, req.headers, options.sendHeaders)
             ELSE EmptyMap
           headerBlock ==
             options.sendHeaders.tag = "object" \/ ~IsNullish(options.privateHeaders)
           details ==
             IF req.variables = None THEN None
             ELSE IF IsNullish(options.privateVariables)
             THEN Some(makeTraceDetails(req.variables[1], options.sendVariableValues,
                                        req.queryString))
             ELSE Some(makeTraceDetailsLegacy(req.variables[1],
                                              options.privateVariables))
           clientInfo == generateClientInfo(options, req)
       IN trace' =
            [trace EXCEPT
               !.startTime = Some(dateToTimestamp(now)),
               !.http = Some([method |-> HTTPMethod(req.method), host |-> None,
                              path |-> None, requestHeaders |-> requestHeaders]),
               !.persistedQueryHit =
                  IF headerBlock /\ req.metrics.persistedQueryHit THEN TRUE ELSE @,
               !.persistedQueryRegister =
                  IF headerBlock /\ req.metrics.persistedQueryRegister THEN TRUE ELSE @,
               !.details = details,
               !.clientVersion =
                  IF clientInfo = None THEN @ ELSE OrEmpty(clientInfo[1].clientVersion),
               !.clientReferenceId =
                  IF clientInfo = None THEN @
                  ELSE OrEmpty(clientInfo[1].clientReferenceId),
               !.clientName =
                  IF clientInfo = None THEN @ ELSE OrEmpty(clientInfo[1].clientName)]
  /\ tick' = 0
  /\ queryString' = req.queryString
  /\ documentAST' = req.parsedQuery
  /\ phase' = "started"
  /\ hookCalls' = Logged(HookCall("requestDidStart", None, 0, 0))
  /\ UNCHANGED <<options, req, nodes, heap, pending, explicitOperationName,
                 addTraceCalls, env, createdFor, completed,
                 clientErrors, thisOperationName, peer>>

\* requestDidStart(o), up to the end handler it returns.
RequestDidStart ==
  /\ phase = "created"
  /\ \E now \in WallClockMillis :
       LET requestHeaders ==
             IF options.sendHeaders.tag = "object"
             THEN makeHTTPRequestHeaders(EmptyMap, req.headers, options.sendHeaders)
             ELSE IF ~IsNullish(options.privateHeaders)
             THEN makeHTTPRequestHeadersLegacy(EmptyMap, req.headers,
                                               options.privateHeaders)
             ELSE EmptyMap
           headerBlock ==
             options.sendHeaders.tag = "object" \/ ~IsNullish(options.privateHeaders)
           details ==
             IF req.variables = None THEN None
             ELSE IF \/ options.sendVariableValues.tag # "undefined"
                     \/ IsNullish(options.privateVariables)
             THEN Some(makeTraceDetails(req.variables[1], options.sendVariableValues,
                                        req.queryString))
             ELSE Some(makeTraceDetailsLegacy(req.variables[1],
                                              options.privateVariables))
           clientInfo == generateClientInfo(options, req)
       IN trace' =
            [trace EXCEPT
               !.startTime = Some(dateToTimestamp(now)),
               !.http = Some([method |-> HTTPMethod(req.method), host |-> None,
                              path |-> None, requestHeaders |-> requestHeaders]),
               !.persistedQueryHit =
                  IF headerBlock /\ req.metrics.persistedQueryHit THEN TRUE ELSE @,
               !.persistedQueryRegister =
                  IF headerBlock /\ req.metrics.persistedQueryRegister THEN TRUE ELSE @,
               !.details = details,
               !.clientVersion =
                  IF clientInfo = None THEN @ ELSE OrEmpty(clientInfo[1].clientVersion),
               !.clientReferenceId =
                  IF clientInfo = None THEN @
                  ELSE OrEmpty(clientInfo[1].clientReferenceId),
               !.clientName =
                  IF clientInfo = None THEN @ ELSE OrEmpty(clientInfo[1].clientName)]
  /\ tick' = 0
  /\ queryString' = req.queryString
  /\ documentAST' = req.parsedQuery
  /\ phase' = "started"
  /\ hookCalls' = Logged(HookCall("requestDidStart", None, 0, 0))
  /\ UNCHANGED <<options, req, nodes, heap, pending, explicitOperationName,
                 addTraceCalls, env, createdFor, completed,
                 clientErrors, thisOperationName, peer>>

\* An end handler that computes the arguments and never calls addTrace.
addTraceNeverCalled(calls, args) == calls

\* this.addTrace(args): the calls of addTrace after it.
addTrace(calls, args) == Append(calls, args)

\* An end handler that knows only the name executionDidStart saved.
EndOperationNameExplicitOnly(explicit, contextName) == OrEmpty(explicit)

\* this.explicitOperationName || o.requestContext.operationName || ''
EndOperationName(explicit, contextName) ==
  IF Truthy(explicit) THEN explicit[1] ELSE OrEmpty(contextName)

\* The end handler returned by requestDidStart, which the pipeline calls once.
EndHandler ==
  /\ phase = "started"
  /\ \E t \in tick..env.lastTick, now \in WallClockMillis :
       /\ tick' = t
       /\ trace' =
            [trace EXCEPT
               !.durationNs = durationHrTimeToNanos(HrTime(t)),
               !.endTime = Some(dateToTimestamp(now)),
               !.fullQueryCacheHit = req.metrics.responseCacheHit,
               !.forbiddenOperation = req.metrics.forbiddenOperation,
               !.registeredOperation = req.metrics.registeredOperation]
       /\ addTraceCalls' =
            addTrace(addTraceCalls,
                   [operationName |->
                      EndOperationName(explicitOperationName, req.operationName),
                    queryHash |-> req.queryHash,
                    documentAST |->
                      IF documentAST # None THEN documentAST ELSE req.document,
                    queryString |-> OrEmpty(queryString),
                    trace |-> "this.trace"])
       /\ hookCalls' = Logged(HookCall("end", None, 0, t))
  /\ phase' = "ended"
  /\ UNCHANGED <<options, req, nodes, heap, pending, explicitOperationName,
                 queryString, documentAST, env, createdFor, completed,
                 clientErrors, thisOperationName, peer>>

\* executionArgs.operationName: not given, the empty string, or a name.
ExecutionOperationNames == {None, Some(""), Some("Q"), Some("R")}

\* An executionDidStart that saves whatever executionArgs.operationName holds.
ExecutionDidStartAlwaysSaves ==
  /\ HookMayArrive
  /\ \E operationName \in ExecutionOperationNames :
       explicitOperationName' = operationName
  /\ documentAST' = Some("document")
  /\ UNCHANGED <<options, req, phase, trace, nodes, heap, tick, pending, queryString,
                 addTraceCalls, env, createdFor, completed,
                 clientErrors, thisOperationName, peer, hookCalls>>

\* executionDidStart(o): o.executionArgs carries the operation name and the document.
ExecutionDidStart ==
  /\ HookMayArrive
  /\ \E operationName \in ExecutionOperationNames :
       explicitOperationName' =
         IF Truthy(operationName) THEN operationName ELSE explicitOperationName
  /\ documentAST' = Some("document")
  /\ UNCHANGED <<options, req, phase, trace, nodes, heap, tick, pending, queryString,
                 addTraceCalls, env, createdFor, completed,
                 clientErrors, thisOperationName, peer, hookCalls>>

ReturnTypes == {"String"}

ParentTypes == {"Query"}

\* willResolveField(source, args, context, info), up to the callback it returns.
WillResolveField ==
  /\ HookMayArrive
  /\ \E path \in env.paths, returnType \in ReturnTypes, parentType \in ParentTypes,
        t \in tick..env.lastTick :
       /\ Len(heap) + MissingOnPath(nodes, path) <= MaxNodes
       /\ LET r == newNode([nodes |-> nodes, heap |-> heap, createdFor |-> createdFor],
                           path)
          IN /\ nodes' = r.b.nodes
             /\ createdFor' = r.b.createdFor
             /\ heap' = [r.b.heap EXCEPT
                           ![r.node].type = returnType,
                           ![r.node].parentType = parentType,
                           ![r.node].startTime = durationHrTimeToNanos(HrTime(t))]
             /\ pending' = pending \cup {r.node}
       /\ tick' = t
       /\ hookCalls' = Logged(HookCall("willResolveField", Some(path), 0, t))
  /\ UNCHANGED <<options, req, phase, trace, explicitOperationName, queryString,
                 documentAST, addTraceCalls, env, completed,
                 clientErrors, thisOperationName, peer>>

\* A callback that also moves the node to the end of its parent's child list.
fieldDidEndMovesLast(hp, node, hrtime) ==
  LET without(list) == SelectSeq(list, LAMBDA c : c # node)
  IN [n \in DOMAIN hp |->
        IF n = node THEN [hp[n] EXCEPT !.endTime = durationHrTimeToNanos(hrtime)]
        ELSE IF \E i \in DOMAIN hp[n].child : hp[n].child[i] = node
        THEN [hp[n] EXCEPT !.child = Append(without(@), node)]
        ELSE hp[n]]

\* A callback that stores the whole seconds of the reading and drops the rest.
fieldDidEndWholeSeconds(hp, node, hrtime) ==
  [hp EXCEPT ![node].endTime = hrtime[1] * NanosPerSecond]

\* The body of the callback willResolveField returns: node.endTime = ...
fieldDidEnd(hp, node, hrtime) ==
  [hp EXCEPT ![node].endTime = durationHrTimeToNanos(hrtime)]

\* The completion callback of one willResolveField call.
FieldDidEnd ==
  /\ HookMayArrive
  /\ \E node \in pending, t \in tick..env.lastTick :
       /\ heap' = fieldDidEnd(heap, node, HrTime(t))
       /\ pending' = pending \ {node}
       /\ completed' = completed \cup {node}
       /\ tick' = t
       /\ hookCalls' = Logged(HookCall("fieldDidEnd", None, node, t))
  /\ UNCHANGED <<options, req, phase, trace, nodes, explicitOperationName, queryString,
                 documentAST, addTraceCalls, env, createdFor,
                 clientErrors, thisOperationName, peer>>

\* The Trace.Error records in the tree.
RECURSIVE CountErrors(_, _)
CountErrors(hp, n) == IF n = 0 THEN 0 ELSE Len(hp[n].error) + CountErrors(hp, n - 1)

ErrorPaths == {None} \cup {Some(responsePathAsArray(p)) : p \in PathsOfDepth(1)}

\* The errors this request's execution may report.
ReportedErrors == env.errors

\* The batches of 1..n errors.
RECURSIVE ErrorBatches(_)
ErrorBatches(n) ==
  IF n <= 0 THEN {}
  ELSE {<<e>> : e \in ReportedErrors}
       \cup {<<e>> \o batch : e \in ReportedErrors, batch \in ErrorBatches(n - 1)}

\* didEncounterErrors(errors)
DidEncounterErrors ==
  /\ HookMayArrive
  /\ \E errors \in ErrorBatches(MaxErrors - Len(clientErrors)) :
       LET after == didEncounterErrors(options, nodes, heap, errors)
       IN /\ heap' = after.heap
          /\ clientErrors' =
               clientErrors \o [i \in 1..Len(errors) |->
                                  [given |-> errors[i], now |-> after.errors[i]]]
  /\ UNCHANGED <<options, req, phase, trace, nodes, tick, pending,
                 explicitOperationName, queryString, documentAST, addTraceCalls,
                 env, createdFor, completed, thisOperationName, peer, hookCalls>>

\* The names the pipeline finds for the operation it is about to execute.
DocumentOperationNames == {"", "Doc"}

\* Between requestDidStart and the end handler the pipeline stores the name of
\* the operation it resolved on the requestContext that requestDidStart was
\* called with.
PipelineSetsOperationName ==
  /\ phase = "started"
  /\ req.operationName = None
  /\ \E name \in DocumentOperationNames :
       req' = [req EXCEPT !.operationName = Some(name)]
  /\ UNCHANGED <<options, phase, trace, nodes, heap, tick, pending,
                 explicitOperationName, queryString, documentAST, addTraceCalls,
                 env, createdFor, completed, clientErrors, thisOperationName,
                 peer, hookCalls>>

(***************************************************************************)
(* The earlier version of the class (it keeps this.operationName and       *)
(* infers a missing name from the first field it resolves).  An instance   *)
(* of it is in the phase "startedEarlier" after its requestDidStart.       *)
(***************************************************************************)
\* urlParse(url) of a URL that has a path only.
urlParse(url) == [hostname |-> None, path |-> Some(url)]

\* The headers the earlier requestDidStart records: all but three.
EarlierRequestHeaders(headers) ==
  [key \in (DOMAIN headers) \ {"authorization", "cookie", "set-cookie"} |->
     <<headers[key]>>]

\* The variablesJson of the earlier requestDidStart.
EarlierVariablesJson(variables, privateVariables) ==
  [name \in DOMAIN variables |->
     IF privateVariables.tag = "array" /\ name \in privateVariables.list THEN Some("")
     ELSE JSONstringify(variables[name]).out]

\* requestDidStart(o) of the earlier version, when it returns (JSON.stringify of
\* a recorded variable does not throw).
RequestDidStartEarlier ==
  /\ phase = "created"
  /\ LET recordsVariables ==
           /\ options.privateVariables # PrivateBool(TRUE)
           /\ req.variables # None
     IN /\ recordsVariables =>
             \A name \in DOMAIN req.variables[1] :
               \/ ( /\ options.privateVariables.tag = "array"
                    /\ name \in options.privateVariables.list )
               \/ ~JSONstringify(req.variables[1][name]).throws
        /\ \E now \in WallClockMillis :
             trace' =
               [trace EXCEPT
                  !.startTime = Some(dateToTimestamp(now)),
                  !.http = Some([method |-> HTTPMethod(req.method),
                                 host |-> urlParse(req.url).hostname,
                                 path |-> urlParse(req.url).path,
                                 requestHeaders |-> EarlierRequestHeaders(req.headers)]),
                  !.details =
                     IF recordsVariables
                     THEN Some([variablesJson |->
                                  EarlierVariablesJson(req.variables[1],
                                                       options.privateVariables)])
                     ELSE @]
  /\ tick' = 0
  /\ phase' = "startedEarlier"
  /\ UNCHANGED <<options, req, nodes, heap, pending, explicitOperationName,
                 queryString, documentAST, addTraceCalls, env, createdFor, completed,
                 clientErrors, thisOperationName, peer, hookCalls>>

\* executionDidStart(o) of the earlier version.
ExecutionDidStartEarlier ==
  /\ phase = "startedEarlier"
  /\ \E operationName \in ExecutionOperationNames :
       thisOperationName' =
         IF Truthy(operationName) THEN operationName ELSE thisOperationName
  /\ documentAST' = Some("document")
  /\ UNCHANGED <<options, req, phase, trace, nodes, heap, tick, pending,
                 explicitOperationName, queryString, addTraceCalls, env, createdFor,
                 completed, clientErrors, peer, hookCalls>>

\* info.operation.name of the operation being executed: absent, or a name node.
InfoOperationNames == {None, Some("Doc")}

\* willResolveField(source, args, context, info) of the earlier version, up to
\* the callback it returns.
WillResolveFieldEarlier ==
  /\ phase = "startedEarlier"
  /\ \E path \in env.paths, returnType \in ReturnTypes, parentType \in ParentTypes,
        t \in tick..env.lastTick, infoOperationName \in InfoOperationNames :
       /\ Len(heap) + MissingOnPath(nodes, path) <= MaxNodes
       /\ thisOperationName' =
            IF thisOperationName = None THEN Some(OrEmpty(infoOperationName))
            ELSE thisOperationName
       /\ LET r == newNode([nodes |-> nodes, heap |-> heap, createdFor |-> createdFor],
                           path)
          IN /\ nodes' = r.b.nodes
             /\ createdFor' = r.b.createdFor
             /\ heap' = [r.b.heap EXCEPT
                           ![r.node].type = returnType,
                           ![r.node].parentType = parentType,
                           ![r.node].startTime = durationHrTimeToNanos(HrTime(t))]
             /\ pending' = pending \cup {r.node}
       /\ tick' = t
  /\ UNCHANGED <<options, req, phase, trace, explicitOperationName, queryString,
                 documentAST, addTraceCalls, env, completed, clientErrors, peer, hookCalls>>

(***************************************************************************)
(* The request lifecycle: one instance, from its construction on, with     *)
(* the hooks in every order the pipeline and the resolvers can produce.    *)
(***************************************************************************)
LifecycleOptions ==
  {Options(NoSendHeaders, NoPrivate, NoSendVariableValues, NoPrivate, hook, None) :
     hook \in {None, Some(HookReturnsNull)}}

\* No option configured.
PlainOptions ==
  {Options(NoSendHeaders, NoPrivate, NoSendVariableValues, NoPrivate, None, None)}

LifecycleRequests ==
  {RequestArg("POST", [n \in {"Accept"} |-> "json"], None, Metrics(FALSE, FALSE), None)}

LifecyclePaths == {p \in FieldPaths : responsePathAsString(Some(p)) = "a"}

\* An error without a path.
LifecycleErrors ==
  {GraphQLError("boom", None, Some(<<[line |-> 1, column |-> 2]>>), None)}

LifecycleEnvs == {Env(LifecyclePaths, MaxTick, TRUE, LifecycleErrors)}

Init == Constructed(LifecycleOptions, LifecycleRequests, LifecycleEnvs)

Next ==
  \/ RequestDidStart
  \/ ExecutionDidStart
  \/ WillResolveField
  \/ FieldDidEnd
  \/ DidEncounterErrors
  \/ EndHandler

Spec == Init /\ [][Next]_vars

(***************************************************************************)
(* The tree builder: the resolvers of the fields at every depth, started   *)
(* and completed in every order, on a clock too coarse to advance within   *)
(* the request.                                                            *)
(***************************************************************************)
TreeEnvs == {Env(FieldPaths, 0, FALSE, {})}

InitTree == Constructed(PlainOptions, LifecycleRequests, TreeEnvs)

NextTree ==
  \/ RequestDidStart
  \/ WillResolveField
  \/ FieldDidEnd

SpecTree == InitTree /\ [][NextTree]_vars

(***************************************************************************)
(* Timing: the resolvers of a field, its sibling and its child, started    *)
(* and completed in every order on an advancing clock, and the end of the  *)
(* request.                                                                *)
(***************************************************************************)
TimingPaths ==
  {p \in FieldPaths :
     responsePathAsString(Some(p)) \in {"a", "b", "a.b"}}

TimingEnvs == {Env(TimingPaths, MaxTick, FALSE, {})}

InitTiming == Constructed(PlainOptions, LifecycleRequests, TimingEnvs)

NextTiming ==
  \/ RequestDidStart
  \/ WillResolveField
  \/ FieldDidEnd
  \/ EndHandler

SpecTiming == InitTiming /\ [][NextTiming]_vars

(***************************************************************************)
(* Header redaction: requestDidStart for every sample request and every    *)
(* configuration of sendHeaders and privateHeaders.                        *)
(***************************************************************************)
\* The header names as the client sent them.
RawHeaderNames == {"Authorization", "cookie", "Set-Cookie", "X-Api-Key", "accept"}

RawHeaders == UNION {[names -> {"value"}] : names \in SUBSET RawHeaderNames}

\* The names an exception list may hold, in the letter case the user wrote.
ExceptHeaderNames == {"AUTHORIZATION", "X-API-KEY", "accept", "set-cookie"}

SendHeadersOptions ==
  {NoSendHeaders, SendHeadersSafelistAll(TRUE), SendHeadersSafelistAll(FALSE)}
  \cup {SendHeadersExcept(names) : names \in SUBSET ExceptHeaderNames}

PrivateHeadersOptions ==
  {NoPrivate, NullPrivate, PrivateBool(TRUE), PrivateBool(FALSE)}
  \cup {PrivateList(names) : names \in SUBSET ExceptHeaderNames}

HeaderOptions ==
  {Options(sendHeaders, privateHeaders, NoSendVariableValues, NoPrivate, None, None) :
     sendHeaders \in SendHeadersOptions, privateHeaders \in PrivateHeadersOptions}

HeaderRequests ==
  {RequestArg("POST", raw, None, Metrics(FALSE, FALSE), None) : raw \in RawHeaders}

\* No field is resolved: only requestDidStart is looked at.
RequestOnlyEnvs == {Env({}, 0, FALSE, {})}

InitHeaders == Constructed(HeaderOptions, HeaderRequests, RequestOnlyEnvs)

NextHeaders == RequestDidStart

SpecHeaders == InitHeaders /\ [][NextHeaders]_vars

(***************************************************************************)
(* Variable redaction: requestDidStart for every sample set of variables   *)
(* and every configuration of sendVariableValues and privateVariables.     *)
(***************************************************************************)
VariableNames == {"a", "b"}

VariableValues ==
  {NumberValue(1), StringValue("x"), StringValue(""), NullValue, CyclicValue}

\* The variables of a request: an object over some of the names.
VariableObjects == UNION {[names -> VariableValues] : names \in SUBSET VariableNames}

\* The names a list of private variables may hold.
ExceptVariableNames == {"a", "b", "c"}

\* What a valueModifier may return: it keeps, replaces, omits and adds keys.
ModifierResults ==
  UNION {[names -> {StringValue("***"), NullValue, CyclicValue}] :
           names \in SUBSET {"a", "b", "added"}}

SendVariableValuesOptions ==
  {NoSendVariableValues, NullSendVariableValues,
   SendVariablesSafelistAll(TRUE), SendVariablesSafelistAll(FALSE)}
  \cup {SendVariablesExcept(names) : names \in SUBSET ExceptVariableNames}
  \cup {SendVariablesModifier(result) : result \in ModifierResults}

PrivateVariablesOptions ==
  {NoPrivate, NullPrivate, PrivateBool(TRUE), PrivateBool(FALSE)}
  \cup {PrivateList(names) : names \in SUBSET {"a", "c"}}

VariableOptions ==
  {Options(NoSendHeaders, NoPrivate, sendVariableValues, privateVariables, None, None) :
     sendVariableValues \in SendVariableValuesOptions,
     privateVariables \in PrivateVariablesOptions}

VariableRequests ==
  {RequestArg("POST", [n \in {"accept"} |-> "value"], variables,
              Metrics(FALSE, FALSE), None) :
     variables \in {None} \cup {Some(v) : v \in VariableObjects}}

InitVariables == Constructed(VariableOptions, VariableRequests, RequestOnlyEnvs)

NextVariables == RequestDidStart

SpecVariables == InitVariables /\ [][NextVariables]_vars

(***************************************************************************)
(* Error reporting: batches of errors with and without a path, for a       *)
(* registered and an unregistered field, under rewriteError hooks that     *)
(* assign fields of their argument and return null, no GraphQLError,       *)
(* their argument or another GraphQLError.                                 *)
(***************************************************************************)
ErrorMessages == {"boom", "secret"}

\* The errors of a request: with no path, on the field a and on the field b.
ErrorSamples ==
  {GraphQLError(message, path, Some(<<[line |-> 1, column |-> 2]>>),
                IF message = "secret" THEN Some("INTERNAL") ELSE None) :
     message \in ErrorMessages,
     path \in {None, Some(<<FieldKey("a")>>), Some(<<FieldKey("b")>>)}}

\* Hooks that bury an error.
BuryingHooks ==
  {HookReturnsNull,
   HookAssigns(Assignment(Some("changed"), Some(None), Some(Some("CHANGED"))),
               HookReturnsNull)}

\* Hooks that report one.
ReportingHooks ==
  {HookReturnsOther,
   HookAssigns(Assignment(Some("changed"), Some(Some(<<FieldKey("b")>>)), None),
               HookReturnsOther),
   HookReturnsError("rewritten", Some(<<FieldKey("b")>>), Some("REWRITTEN")),
   HookReturnsError("rewritten", None, None),
   HookReturnsArgument,
   HookAssigns(Assignment(Some("masked"), Some(Some(<<FieldKey("b")>>)), None),
               HookReturnsArgument)}

\* rewriteError unset, or a hook that buries "secret" and treats "boom" in one
\* of the ways above.
RewriteErrorOptions ==
  {None}
  \cup {Some(HookByMessage([m \in ErrorMessages |->
                              IF m = "secret" THEN bury ELSE other])) :
          bury \in BuryingHooks, other \in BuryingHooks \cup ReportingHooks}

ErrorOptions ==
  {Options(NoSendHeaders, NoPrivate, NoSendVariableValues, NoPrivate, hook, None) :
     hook \in RewriteErrorOptions}

ErrorEnvs == {Env(LifecyclePaths, 0, FALSE, ErrorSamples)}

InitErrors == Constructed(ErrorOptions, LifecycleRequests, ErrorEnvs)

NextErrors ==
  \/ RequestDidStart
  \/ WillResolveField
  \/ DidEncounterErrors

SpecErrors == InitErrors /\ [][NextErrors]_vars

(***************************************************************************)
(* The operation name: executionDidStart with and without a name, fields   *)
(* being resolved, the pipeline storing the name it resolved, and the end  *)
(* handler; for an instance of the class and for one of its earlier        *)
(* version.                                                                *)
(***************************************************************************)
OperationEnvs == {Env(LifecyclePaths, MaxTick, FALSE, {})}

InitOperation == Constructed(PlainOptions, LifecycleRequests, OperationEnvs)

NextOperation ==
  \/ RequestDidStart
  \/ ExecutionDidStart
  \/ WillResolveField
  \/ PipelineSetsOperationName
  \/ EndHandler
  \/ RequestDidStartEarlier
  \/ ExecutionDidStartEarlier
  \/ WillResolveFieldEarlier

SpecOperation == InitOperation /\ [][NextOperation]_vars

(***************************************************************************)
(* The persisted-query flags: a request whose metrics say that the query   *)
(* was found in, or registered with, the persisted query cache, under      *)
(* header options that are set and unset.                                  *)
(***************************************************************************)
FlagOptions ==
  {Options(sendHeaders, privateHeaders, NoSendVariableValues, NoPrivate, None, None) :
     sendHeaders \in {NoSendHeaders, SendHeadersSafelistAll(TRUE),
                      SendHeadersSafelistAll(FALSE), SendHeadersExcept({})},
     privateHeaders \in {NoPrivate, NullPrivate, PrivateBool(TRUE), PrivateBool(FALSE)}}

FlagRequests ==
  {RequestArg("POST", [n \in {"accept"} |-> "value"], None, Metrics(hit, register),
              None) :
     hit \in BOOLEAN, register \in BOOLEAN}

InitFlags == Constructed(FlagOptions, FlagRequests, RequestOnlyEnvs)

NextFlags ==
  \/ RequestDidStart
  \/ EndHandler

SpecFlags == InitFlags /\ [][NextFlags]_vars

(***************************************************************************)
(* The deprecated options: requestDidStart with privateHeaders and         *)
(* privateVariables set to a boolean or a list, and no sendHeaders or      *)
(* sendVariableValues.                                                     *)
(***************************************************************************)
LegacyRawHeaders ==
  UNION {[names -> {"value"}] : names \in SUBSET {"Authorization", "X-Api-Key", "accept"}}

LegacyOptions ==
  {Options(NoSendHeaders, privateHeaders, NoSendVariableValues, privateVariables,
           None, None) :
     privateHeaders \in {PrivateBool(TRUE), PrivateBool(FALSE)}
                        \cup {PrivateList(names) : names \in SUBSET ExceptHeaderNames},
     privateVariables \in {PrivateBool(TRUE), PrivateBool(FALSE)}
                          \cup {PrivateList(names) : names \in SUBSET {"a", "c"}}}

LegacyRequests ==
  {RequestArg("POST", raw, Some(variables), Metrics(FALSE, FALSE), None) :
     raw \in LegacyRawHeaders, variables \in VariableObjects}

InitLegacy == Constructed(LegacyOptions, LegacyRequests, RequestOnlyEnvs)

NextLegacy == RequestDidStart

SpecLegacy == InitLegacy /\ [][NextLegacy]_vars

(***************************************************************************)
(* The tree, as the claims speak of it.                                    *)
(***************************************************************************)
NodeIds == 1..Len(heap)

\* How often node n stands in the child list of node p.
ChildOccurrences(p, n) ==
  Cardinality({i \in DOMAIN heap[p].child : heap[p].child[i] = n})

ParentsOf(n) == {p \in NodeIds : ChildOccurrences(p, n) > 0}

ChildrenOf(hp, p) == {hp[p].child[i] : i \in DOMAIN hp[p].child}

\* The nodes reached from the set S in at most k steps down the child lists.
RECURSIVE ReachFrom(_, _, _)
ReachFrom(hp, S, k) ==
  IF k = 0 THEN S
  ELSE ReachFrom(hp, S \cup UNION {ChildrenOf(hp, p) : p \in S}, k - 1)

Reachable == ReachFrom(heap, {trace.root}, Len(heap))

\* The nodes willResolveField returned: those a resolver was started for.
StartedNodes == pending \cup completed

\* Number of keys of a path.
RECURSIVE Depth(_)
Depth(p) == IF p.prev = None THEN 1 ELSE 1 + Depth(p.prev[1])

(***************************************************************************)
(* C1.  The trace tree is connected: every node newNode created is         *)
(* reachable from trace.root through child lists, the root is nobody's     *)
(* child, and every other node stands exactly once in the child list of    *)
(* exactly one node, a node that was created for its path without the      *)
(* last key.                                                               *)
(***************************************************************************)
C1_TreeConnected ==
  /\ Reachable = NodeIds
  /\ ParentsOf(RootId) = {}
  /\ \A n \in NodeIds \ {RootId} :
       \E p \in NodeIds :
         /\ ParentsOf(n) = {p}
         /\ ChildOccurrences(p, n) = 1
         /\ createdFor[p] = createdFor[n][1].prev

\* A path of three keys was started before its parent, which newNode created for
\* it; one completion callback has run and one is outstanding.
C1_Witness ==
  /\ \E n \in StartedNodes :
       /\ Depth(createdFor[n][1]) = 3
       /\ \E p \in NodeIds \ StartedNodes : ParentsOf(n) = {p}
  /\ completed # {}
  /\ pending # {}

(***************************************************************************)
(* C2.  When every response path is started at most once, in any order,    *)
(* the tree holds no two nodes for one path: no node has two children      *)
(* with the same field name or the same index, and there are as many       *)
(* nodes besides the root as registry keys besides ''.                     *)
(***************************************************************************)
EachPathStartedOnce ==
  \A m, n \in StartedNodes : m # n => createdFor[m] # createdFor[n]

SameId(m, n) ==
  \/ heap[m].fieldName # None /\ heap[m].fieldName = heap[n].fieldName
  \/ heap[m].index # None /\ heap[m].index = heap[n].index

C2_NoDuplicateNodes ==
  EachPathStartedOnce =>
    /\ \A p \in NodeIds : \A i, j \in DOMAIN heap[p].child :
         i # j => ~SameId(heap[p].child[i], heap[p].child[j])
    /\ Len(heap) - 1 = Cardinality((DOMAIN nodes) \ {""})

(***************************************************************************)
(* C3.  In the trace handed to addTrace every node has                     *)
(* endTime >= startTime, whatever the interleaving of field starts,        *)
(* completion callbacks and the end handler.                               *)
(***************************************************************************)
C3_EveryNodeEndsAfterStart ==
  phase = "ended" => \A n \in NodeIds : heap[n].endTime >= heap[n].startTime

(***************************************************************************)
(* C4.  Once the end handler has passed the trace to addTrace, no step     *)
(* changes a field of the trace or of a node reachable from its root.      *)
(***************************************************************************)
C4_NoChangeAfterHandOff ==
  [][phase = "ended" =>
       /\ trace' = trace
       /\ ReachFrom(heap', {trace'.root}, Len(heap')) = Reachable
       /\ \A n \in Reachable : heap'[n] = heap[n]]_vars

(***************************************************************************)
(* C5.  addTrace is called by the end handler and by no other hook: it     *)
(* has not been called before the end handler ran and has been called      *)
(* exactly once from then on.                                              *)
(***************************************************************************)
C5_AddTraceExactlyOnce ==
  Len(addTraceCalls) = IF phase = "ended" THEN 1 ELSE 0

\* After the hand-off a resolver was started, a callback ran and an error was
\* reported.
C5_Witness ==
  /\ phase = "ended"
  /\ Len(addTraceCalls) = 1
  /\ \E n \in completed : heap[n].endTime > trace.durationNs
  /\ \E n \in pending : heap[n].startTime > trace.durationNs
  /\ CountErrors(heap, Len(heap)) > 0
  /\ explicitOperationName # None

(***************************************************************************)
(* C6.  After requestDidStart trace.http.requestHeaders has no entry       *)
(* named authorization, cookie or set-cookie, in any letter case.          *)
(***************************************************************************)
SensitiveHeaders == {"authorization", "cookie", "set-cookie"}

C6_SensitiveHeadersDropped ==
  phase = "started" =>
    \A key \in DOMAIN trace.http[1].requestHeaders :
      toLowerCase(key) \notin SensitiveHeaders

\* All headers are safelisted, the request carries the three sensitive headers
\* and two others, and exactly the two others are recorded.
C6_Witness ==
  /\ phase = "started"
  /\ options.sendHeaders = SendHeadersSafelistAll(TRUE)
  /\ SensitiveHeaders \subseteq DOMAIN req.headers
  /\ DOMAIN trace.http[1].requestHeaders = {"accept", "x-api-key"}

(***************************************************************************)
(* C7.  When the request carries variables and neither sendVariableValues  *)
(* nor privateVariables is configured, variablesJson has exactly the       *)
(* request's variable names as keys and '' as every value.                 *)
(***************************************************************************)
C7_DefaultRedactsAll ==
  ( /\ phase = "started"
    /\ req.variables # None
    /\ IsNullish(options.sendVariableValues)
    /\ IsNullish(options.privateVariables) )
  => /\ trace.details # None
     /\ DOMAIN trace.details[1].variablesJson = DOMAIN req.variables[1]
     /\ \A name \in DOMAIN req.variables[1] :
          trace.details[1].variablesJson[name] = ""

\* Variables {a: 1, b: "x"} with no option configured.
C7_Witness ==
  /\ phase = "started"
  /\ options.sendVariableValues = NoSendVariableValues
  /\ options.privateVariables = NoPrivate
  /\ req.variables = Some([n \in {"a", "b"} |->
                             IF n = "a" THEN NumberValue(1) ELSE StringValue("x")])
  /\ trace.details = Some([variablesJson |-> [n \in {"a", "b"} |-> ""]])

(***************************************************************************)
(* C8.  With sendVariableValues = {exceptVariableNames: L} every variable  *)
(* name n of the request is recorded: as '' when n is in L, as the JSON    *)
(* encoding of its value when n is not in L (for the values JSON can       *)
(* encode).  With {safelistAll: false} every variable is recorded as ''.   *)
(***************************************************************************)
C8_ExceptNamesRecorded ==
  ( /\ phase = "started"
    /\ req.variables # None
    /\ options.sendVariableValues.tag = "object" )
  => LET variables == req.variables[1]
         recorded == trace.details[1].variablesJson
     IN /\ options.sendVariableValues.exceptVariableNames # None =>
             \A n \in DOMAIN variables :
               /\ n \in DOMAIN recorded
               /\ n \in options.sendVariableValues.exceptVariableNames[1] =>
                    recorded[n] = ""
               /\ ( /\ n \notin options.sendVariableValues.exceptVariableNames[1]
                    /\ ~JSONstringify(variables[n]).throws ) =>
                    Some(recorded[n]) = JSONstringify(variables[n]).out
        /\ options.sendVariableValues.safelistAll = Some(FALSE) =>
             \A n \in DOMAIN variables : n \in DOMAIN recorded /\ recorded[n] = ""

(***************************************************************************)
(* C9.  '' is recorded only for redacted variables: a variable the policy  *)
(* of sendVariableValues does not redact, whatever its value (null and     *)
(* the empty string included), is recorded as its JSON encoding, or as     *)
(* the encoded sentinel when encoding fails, and never as ''.              *)
(***************************************************************************)
PolicyRedacts(name) ==
  \/ options.sendVariableValues.safelistAll = Some(FALSE)
  \/ /\ options.sendVariableValues.exceptVariableNames # None
     /\ name \in options.sendVariableValues.exceptVariableNames[1]

\* The value the policy looks at: the modifier's, when one is configured.
ValueToRecord(name) ==
  IF options.sendVariableValues.valueModifier # None
  THEN GetProperty(options.sendVariableValues.valueModifier[1], name)
  ELSE req.variables[1][name]

C9_EmptyOnlyWhenRedacted ==
  ( /\ phase = "started"
    /\ req.variables # None
    /\ options.sendVariableValues.tag = "object" )
  => \A name \in DOMAIN trace.details[1].variablesJson :
       ( /\ ~PolicyRedacts(name)
         /\ ValueToRecord(name) # UndefinedValue )
       => /\ trace.details[1].variablesJson[name] # ""
          /\ trace.details[1].variablesJson[name] =
               IF JSONstringify(ValueToRecord(name)).throws
               THEN "\"[Unable to convert value to JSON]\""
               ELSE JSONstringify(ValueToRecord(name)).out[1]

(***************************************************************************)
(* C10.  As claimed: with a valueModifier configured the keys of           *)
(* variablesJson are the original variable names the modifier's result     *)
(* also contains, so a key the modifier omits has no entry.                *)
(***************************************************************************)
ModifierConfigured ==
  /\ phase = "started"
  /\ req.variables # None
  /\ options.sendVariableValues.tag = "object"
  /\ options.sendVariableValues.valueModifier # None

C10_KeysAreThoseTheModifierKept ==
  ModifierConfigured =>
    DOMAIN trace.details[1].variablesJson =
      (DOMAIN req.variables[1]) \cap (DOMAIN options.sendVariableValues.valueModifier[1])

(***************************************************************************)
(* C10, amended.  With a valueModifier configured the keys of              *)
(* variablesJson are exactly the original variable names: a key the        *)
(* modifier adds is not recorded, and a key the modifier omits is          *)
(* recorded with the value '', as a redacted variable is.                  *)
(***************************************************************************)
C10_KeysAreTheOriginalNames ==
  ModifierConfigured =>
    /\ DOMAIN trace.details[1].variablesJson = DOMAIN req.variables[1]
    /\ \A name \in (DOMAIN req.variables[1])
                     \ (DOMAIN options.sendVariableValues.valueModifier[1]) :
         trace.details[1].variablesJson[name] = ""

\* The modifier keeps a, omits b and adds a key.
C10_Witness ==
  /\ ModifierConfigured
  /\ DOMAIN req.variables[1] = {"a", "b"}
  /\ DOMAIN options.sendVariableValues.valueModifier[1] = {"a", "added"}
  /\ trace.details[1].variablesJson =
       [n \in {"a", "b"} |-> IF n = "a" THEN "\"***\"" ELSE ""]

(***************************************************************************)
(* C11.  When JSON encoding of a variable that is not redacted fails, the  *)
(* variable is recorded as the JSON-encoded string "[Unable to convert     *)
(* value to JSON]", every other variable is recorded as it is when the     *)
(* failing value is replaced by one that encodes, and requestDidStart      *)
(* completes for every input, after which the end handler can run.         *)
(***************************************************************************)
WithoutFailure(obj) ==
  [n \in DOMAIN obj |-> IF JSONstringify(obj[n]).throws THEN NumberValue(1) ELSE obj[n]]

\* The configured option with the values of a valueModifier replaced alike.
OptionWithoutFailure ==
  IF options.sendVariableValues.valueModifier # None
  THEN SendVariablesModifier(WithoutFailure(options.sendVariableValues.valueModifier[1]))
  ELSE options.sendVariableValues

C11_EncodingFailureRecovered ==
  /\ phase = "created" => ENABLED RequestDidStart
  /\ phase = "started" => ENABLED EndHandler
  /\ ( /\ phase = "started"
       /\ req.variables # None
       /\ options.sendVariableValues.tag = "object" )
     => LET recorded == trace.details[1].variablesJson
            others == makeTraceDetails(WithoutFailure(req.variables[1]),
                                       OptionWithoutFailure,
                                       req.queryString).variablesJson
        IN \A name \in DOMAIN recorded :
             IF ~PolicyRedacts(name) /\ JSONstringify(ValueToRecord(name)).throws
             THEN recorded[name] = "\"[Unable to convert value to JSON]\""
             ELSE recorded[name] = others[name]

\* {a: <cyclic>, b: "x"} with every variable sent.
C11_Witness ==
  /\ phase = "started"
  /\ options.sendVariableValues = SendVariablesSafelistAll(TRUE)
  /\ req.variables = Some([n \in {"a", "b"} |->
                             IF n = "a" THEN CyclicValue ELSE StringValue("x")])
  /\ trace.details[1].variablesJson =
       [n \in {"a", "b"} |->
          IF n = "a" THEN "\"[Unable to convert value to JSON]\"" ELSE "\"x\""]

(***************************************************************************)
(* Errors, as the claims speak of them.                                    *)
(***************************************************************************)
\* What the configured hook does with this error.
HookOf(e) == HookFor(options.rewriteError[1], e.message)

\* The hook returns null for this error.
Suppressed(e) == options.rewriteError # None /\ HookOf(e).returns = "null"

\* The node the claims attach an error to: the one registered under its full
\* path key, the root without a path or without a registration.
AttachNode(e) ==
  IF e.path # None /\ JoinKeys(e.path[1], ".") \in DOMAIN nodes
  THEN nodes[JoinKeys(e.path[1], ".")]
  ELSE RootId

\* The Trace.Error records of the nodes 1..n that were made from an error with path p.
RECURSIVE RecordsWithPath(_, _)
RecordsWithPath(p, n) ==
  IF n = 0 THEN 0
  ELSE Cardinality({k \in DOMAIN heap[n].error : heap[n].error[k].json.path = p})
       + RecordsWithPath(p, n - 1)

\* The Trace.Error records in the tree.
TraceErrors == UNION {{heap[n].error[k] : k \in DOMAIN heap[n].error} : n \in NodeIds}

\* A step of didEncounterErrors, the errors it was called with, and the records
\* it pushed on node n.
ErrorStep == clientErrors' # clientErrors

Batch == SubSeq(clientErrors', Len(clientErrors) + 1, Len(clientErrors'))

NewErrors(n) == SubSeq(heap'[n].error, Len(heap[n].error) + 1, Len(heap'[n].error))

\* A call of didEncounterErrors with one error.
SingleErrorStep == ErrorStep /\ Len(Batch) = 1

(***************************************************************************)
(* C12.  An error for which the rewriteError hook returns null leaves no   *)
(* Trace.Error on any node, the other errors given to didEncounterErrors   *)
(* are still recorded (as many records per path as errors not buried),     *)
(* and the error object passed in keeps its message.                       *)
(***************************************************************************)
C12_NullBuriesOnlyThatError ==
  /\ \A i \in DOMAIN clientErrors :
       Suppressed(clientErrors[i].given) =>
         /\ clientErrors[i].now.message = clientErrors[i].given.message
         /\ \A t \in TraceErrors : t.message # clientErrors[i].given.message
  /\ \A p \in {clientErrors[i].given.path : i \in DOMAIN clientErrors} :
       RecordsWithPath(p, Len(heap)) =
         Cardinality({i \in DOMAIN clientErrors :
                        /\ clientErrors[i].given.path = p
                        /\ ~Suppressed(clientErrors[i].given)})

\* One batch: "secret" is buried by a hook that changed its argument's message,
\* "boom" after it is recorded on the same field.
C12_Witness ==
  /\ Len(clientErrors) = 2
  /\ clientErrors[1].given.message = "secret"
  /\ clientErrors[2].given.message = "boom"
  /\ clientErrors[1].given.path = Some(<<FieldKey("a")>>)
  /\ clientErrors[2].given.path = Some(<<FieldKey("a")>>)
  /\ Suppressed(clientErrors[1].given)
  /\ AssignsOf(HookOf(clientErrors[1].given)).message # None
  /\ ~Suppressed(clientErrors[2].given)
  /\ "a" \in DOMAIN nodes
  /\ Len(heap[nodes["a"]].error) = 1
  /\ CountErrors(heap, Len(heap)) = 1

(***************************************************************************)
(* C13.  When the hook returns a value that is neither null nor a          *)
(* GraphQLError, exactly one Trace.Error is recorded for the error, on     *)
(* the node its path determines, with the original message and locations,  *)
(* also when the hook assigned fields of the copy it was called with.      *)
(***************************************************************************)
C13_OtherReturnReportsOriginal ==
  [][( /\ SingleErrorStep
       /\ options.rewriteError # None
       /\ HookOf(Batch[1].given).returns = "other" )
     => LET e == Batch[1].given
        IN /\ \A n \in NodeIds :
                Len(NewErrors(n)) = IF n = AttachNode(e) THEN 1 ELSE 0
           /\ NewErrors(AttachNode(e))[1].message = e.message
           /\ NewErrors(AttachNode(e))[1].location = e.locations[1]
           /\ NewErrors(AttachNode(e))[1].json.path = e.path]_vars

\* The hook changed message and path of its argument and returned nothing: the
\* error of field a is on the node of a, with its message.
C13_Witness ==
  /\ Len(clientErrors) = 1
  /\ options.rewriteError # None
  /\ HookOf(clientErrors[1].given).returns = "other"
  /\ AssignsOf(HookOf(clientErrors[1].given)).message = Some("changed")
  /\ clientErrors[1].given.path = Some(<<FieldKey("a")>>)
  /\ "a" \in DOMAIN nodes
  /\ Len(heap[nodes["a"]].error) = 1
  /\ heap[nodes["a"]].error[1].message = "boom"

(***************************************************************************)
(* C14.  When the hook returns a GraphQLError, the recorded error has the  *)
(* message of the returned error and the path and locations of the         *)
(* original one, whatever path the returned error carries: it is on the    *)
(* node the original error goes to without a hook.                         *)
(***************************************************************************)
ReturnedMessage(e) ==
  IF HookOf(e).returns = "error" THEN HookOf(e).message
  ELSE IF AssignsOf(HookOf(e)).message # None THEN AssignsOf(HookOf(e)).message[1]
  ELSE e.message

C14_RewrittenKeepsNode ==
  [][( /\ SingleErrorStep
       /\ options.rewriteError # None
       /\ HookOf(Batch[1].given).returns \in {"error", "argument"} )
     => LET e == Batch[1].given
        IN /\ \A n \in NodeIds :
                Len(NewErrors(n)) = IF n = AttachNode(e) THEN 1 ELSE 0
           /\ NewErrors(AttachNode(e))[1].message = ReturnedMessage(e)
           /\ NewErrors(AttachNode(e))[1].location = e.locations[1]
           /\ NewErrors(AttachNode(e))[1].json.path = e.path]_vars

\* The hook returned an error with the path of field b for the error of field a:
\* the record is on the node of a, with the new message.
C14_Witness ==
  /\ Len(clientErrors) = 1
  /\ options.rewriteError # None
  /\ HookOf(clientErrors[1].given).returns = "error"
  /\ HookOf(clientErrors[1].given).path = Some(<<FieldKey("b")>>)
  /\ clientErrors[1].given.path = Some(<<FieldKey("a")>>)
  /\ "a" \in DOMAIN nodes
  /\ Len(heap[nodes["a"]].error) = 1
  /\ heap[nodes["a"]].error[1].message = "rewritten"
  /\ heap[RootId].error = <<>>

(***************************************************************************)
(* C15.  didEncounterErrors leaves every error object it is given as it    *)
(* was: message, path, locations and extensions are the same after the     *)
(* call, whatever fields the hook assigns on the object it is called with  *)
(* and whatever it returns.                                                *)
(***************************************************************************)
C15_GivenErrorsUnchanged ==
  \A i \in DOMAIN clientErrors : clientErrors[i].now = clientErrors[i].given

\* A hook that assigned message, path and extensions of its argument.
C15_Witness ==
  \E i \in DOMAIN clientErrors :
    /\ options.rewriteError # None
    /\ AssignsOf(HookOf(clientErrors[i].given)).message # None
    /\ AssignsOf(HookOf(clientErrors[i].given)).path # None
    /\ AssignsOf(HookOf(clientErrors[i].given)).extensions # None
    /\ clientErrors[i].given.path # None
    /\ clientErrors[i].given.extensions # None

(***************************************************************************)
(* C16.  Every error that is not suppressed is pushed on exactly one       *)
(* node, the one registered under its full path key, or the root when it   *)
(* has no path or the key is not registered; the Trace.Error records in    *)
(* the tree are as many as the errors reported and not suppressed.         *)
(***************************************************************************)
C16_ErrorsOnTheirNode ==
  [][ /\ ErrorStep =>
           \A n \in NodeIds :
             Len(NewErrors(n)) =
               Cardinality({i \in DOMAIN Batch :
                              /\ ~Suppressed(Batch[i].given)
                              /\ AttachNode(Batch[i].given) = n})
      /\ CountErrors(heap', Len(heap')) =
           Cardinality({i \in DOMAIN clientErrors' :
                          ~Suppressed(clientErrors'[i].given)}) ]_vars

\* Two errors of one request: the one of the unregistered field b is on the
\* root, the one of field a on the node of a.
C16_Witness ==
  /\ "a" \in DOMAIN nodes
  /\ "b" \notin DOMAIN nodes
  /\ Len(heap[nodes["a"]].error) = 1
  /\ Len(heap[RootId].error) = 1
  /\ heap[RootId].error[1].json.path = Some(<<FieldKey("b")>>)
  /\ Len(clientErrors) = 2

(***************************************************************************)
(* C17.  As claimed: once an explicit operation name is captured no later  *)
(* event changes it, a later executionDidStart with another name           *)
(* included, and the earlier version's willResolveField stores an          *)
(* inferred name only when no name was stored before.                      *)
(***************************************************************************)
\* A step of willResolveField: the tree gets a node.
TreeGrows == Len(heap') > Len(heap)

C17_CapturedNameNeverChanges ==
  [][ /\ Truthy(explicitOperationName) =>
           explicitOperationName' = explicitOperationName
      /\ (TreeGrows /\ thisOperationName' # thisOperationName) =>
           thisOperationName = None ]_vars

(***************************************************************************)
(* C17, amended.  A captured operation name changes only when a later      *)
(* executionDidStart carries a name that is not empty, which replaces it;  *)
(* executionDidStart without a name or with the empty string,              *)
(* willResolveField and every other hook leave it as it is.  In the        *)
(* earlier version willResolveField stores the name inferred from the      *)
(* document only when no name was stored before.                           *)
(***************************************************************************)
C17_NameChangesOnlyToAGivenName ==
  [][ /\ explicitOperationName' # explicitOperationName =>
           /\ Truthy(explicitOperationName')
           /\ ~TreeGrows
           /\ documentAST' = Some("document")
      /\ thisOperationName' # thisOperationName =>
           IF TreeGrows THEN thisOperationName = None
           ELSE Truthy(thisOperationName') /\ documentAST' = Some("document") ]_vars

\* The name Q was captured, a field was resolved and the pipeline found the
\* operation of the document to be named Doc.
C17_Witness ==
  /\ explicitOperationName = Some("Q")
  /\ Len(heap) > 1
  /\ req.operationName = Some("Doc")

(***************************************************************************)
(* C18.  The operationName passed to addTrace is the captured explicit     *)
(* name when there is one, otherwise requestContext.operationName as it    *)
(* is when the end handler runs, otherwise the empty string; it is always  *)
(* a string.                                                               *)
(***************************************************************************)
C18_OperationNameFallsBack ==
  phase = "ended" =>
    /\ Len(addTraceCalls) = 1
    /\ addTraceCalls[1].operationName \in {"", "Q", "R", "Doc"}
    /\ addTraceCalls[1].operationName =
         IF explicitOperationName # None /\ explicitOperationName[1] # ""
         THEN explicitOperationName[1]
         ELSE IF req.operationName # None THEN req.operationName[1]
         ELSE ""

\* No name was captured, and the name the pipeline stored after requestDidStart
\* is the one passed on.
C18_Witness ==
  /\ phase = "ended"
  /\ ~Truthy(explicitOperationName)
  /\ req.operationName = Some("Doc")
  /\ addTraceCalls[1].operationName = "Doc"

(***************************************************************************)
(* C19.  In the trace handed to addTrace, persistedQueryHit and            *)
(* persistedQueryRegister are true exactly when the request metrics of     *)
(* the same name are set, whatever sendHeaders and privateHeaders are,     *)
(* also when neither is configured.                                        *)
(***************************************************************************)
C19_PersistedQueryFlagsFollowMetrics ==
  phase = "ended" =>
    /\ trace.persistedQueryHit = req.metrics.persistedQueryHit
    /\ trace.persistedQueryRegister = req.metrics.persistedQueryRegister

(***************************************************************************)
(* C20.  The deprecated options record what their structured translation   *)
(* records: privateVariables = true as {safelistAll: false}, false as      *)
(* {safelistAll: true}, a list as {exceptVariableNames: list};             *)
(* privateHeaders = true as {safelistAll: false}, false as                 *)
(* {safelistAll: true}, a list as {except: list}.                          *)
(***************************************************************************)
StructuredVariables(p) ==
  IF p.tag = "array" THEN SendVariablesExcept(p.list)
  ELSE IF p.flag THEN SendVariablesSafelistAll(FALSE)
  ELSE SendVariablesSafelistAll(TRUE)

StructuredHeaders(p) ==
  IF p.tag = "array" THEN SendHeadersExcept(p.list)
  ELSE IF p.flag THEN SendHeadersSafelistAll(FALSE)
  ELSE SendHeadersSafelistAll(TRUE)

C20_LegacyAsStructured ==
  phase = "started" =>
    /\ trace.details =
         Some(makeTraceDetails(req.variables[1],
                               StructuredVariables(options.privateVariables),
                               req.queryString))
    /\ trace.http[1].requestHeaders =
         makeHTTPRequestHeaders(EmptyMap, req.headers,
                                StructuredHeaders(options.privateHeaders))

\* privateVariables = ['a'] and privateHeaders = false: a is redacted, b and the
\* two headers that are not sensitive are recorded.
C20_Witness ==
  /\ phase = "started"
  /\ options.privateVariables = PrivateList({"a"})
  /\ options.privateHeaders = PrivateBool(FALSE)
  /\ req.variables = Some([n \in {"a", "b"} |->
                             IF n = "a" THEN NumberValue(1) ELSE StringValue("x")])
  /\ trace.details[1].variablesJson =
       [n \in {"a", "b"} |-> IF n = "a" THEN "" ELSE "\"x\""]
  /\ DOMAIN req.headers = {"authorization", "x-api-key", "accept"}
  /\ DOMAIN trace.http[1].requestHeaders = {"x-api-key", "accept"}

(***************************************************************************)
(* Precedence: requestDidStart for every pairing of a newer option with    *)
(* its deprecated counterpart, on both axes at once.                       *)
(***************************************************************************)
PrecedenceSendHeaders ==
  {NoSendHeaders, SendHeadersSafelistAll(TRUE), SendHeadersSafelistAll(FALSE),
   SendHeadersExcept({"accept"})}

PrecedencePrivateHeaders ==
  {NoPrivate, NullPrivate, PrivateBool(TRUE), PrivateBool(FALSE),
   PrivateList({"X-API-KEY"})}

PrecedenceSendVariableValues ==
  {NoSendVariableValues, NullSendVariableValues, SendVariablesSafelistAll(TRUE),
   SendVariablesSafelistAll(FALSE), SendVariablesExcept({"a"}),
   SendVariablesModifier([n \in {"b"} |-> StringValue("***")])}

PrecedencePrivateVariables ==
  {NoPrivate, NullPrivate, PrivateBool(TRUE), PrivateBool(FALSE), PrivateList({"b"})}

PrecedenceOptions ==
  {Options(sendH, privateH, sendV, privateV, None, None) :
     sendH \in PrecedenceSendHeaders, privateH \in PrecedencePrivateHeaders,
     sendV \in PrecedenceSendVariableValues, privateV \in PrecedencePrivateVariables}

PrecedenceVariables ==
  {None, Some([n \in {"a", "b"} |-> IF n = "a" THEN NumberValue(1) ELSE StringValue("x")])}

PrecedenceRequests ==
  {RequestArg("POST", [n \in names |-> "value"], variables, Metrics(FALSE, FALSE), None) :
     names \in {{"X-Api-Key", "accept"}, {"Authorization", "accept"}},
     variables \in PrecedenceVariables}

InitPrecedence == Constructed(PrecedenceOptions, PrecedenceRequests, RequestOnlyEnvs)

NextPrecedence == RequestDidStart

SpecPrecedence == InitPrecedence /\ [][NextPrecedence]_vars

\* The option is set to one of its structured forms.
NewerConfigured(option) == option.tag = "object"

\* What is recorded when only the newer options are given.
HeadersWithNewerAlone ==
  IF NewerConfigured(options.sendHeaders)
  THEN makeHTTPRequestHeaders(EmptyMap, req.headers, options.sendHeaders)
  ELSE EmptyMap

VariablesWithNewerAlone ==
  makeTraceDetails(req.variables[1], options.sendVariableValues, req.queryString)

\* C21: on each axis the newer option takes precedence.  With sendHeaders and
\* privateHeaders both configured the recorded headers are those recorded with
\* sendHeaders alone; with sendVariableValues and privateVariables both
\* configured the recorded variables are those recorded with sendVariableValues
\* alone; the deprecated option changes what is recorded only when the newer
\* one is not configured and the deprecated one is set.
C21_NewerOptionTakesPrecedence ==
  phase = "started" =>
    /\ NewerConfigured(options.sendHeaders)
         => trace.http[1].requestHeaders = HeadersWithNewerAlone
    /\ trace.http[1].requestHeaders # HeadersWithNewerAlone
         => /\ ~NewerConfigured(options.sendHeaders)
            /\ ~IsNullish(options.privateHeaders)
    /\ req.variables # None =>
         /\ NewerConfigured(options.sendVariableValues)
              => trace.details = Some(VariablesWithNewerAlone)
         /\ trace.details # Some(VariablesWithNewerAlone)
              => /\ ~NewerConfigured(options.sendVariableValues)
                 /\ ~IsNullish(options.privateVariables)

\* Both axes carry both options, the deprecated ones asking for everything and
\* the newer ones for less: the newer ones decided.
C21_Witness ==
  /\ phase = "started"
  /\ options.sendHeaders = SendHeadersExcept({"accept"})
  /\ options.privateHeaders = PrivateBool(FALSE)
  /\ options.sendVariableValues = SendVariablesExcept({"a"})
  /\ options.privateVariables = PrivateBool(FALSE)
  /\ req.variables # None
  /\ DOMAIN trace.http[1].requestHeaders = {"x-api-key"}
  /\ trace.details # Some(makeTraceDetailsLegacy(req.variables[1], PrivateBool(FALSE)))

\* The request carries a header that an open policy would record.
CarriesOrdinaryHeader == \E key \in DOMAIN req.headers : key \notin SensitiveHeaders

\* C22: with neither sendHeaders nor privateHeaders configured, with
\* sendHeaders = {safelistAll: false}, and with privateHeaders = true (and no
\* sendHeaders), trace.http.requestHeaders is empty after requestDidStart,
\* whatever headers the request carries.
C22_NoHeadersUnlessAskedFor ==
  phase = "started" =>
    /\ (options.sendHeaders = NoSendHeaders /\ IsNullish(options.privateHeaders))
         => trace.http[1].requestHeaders = EmptyMap
    /\ options.sendHeaders = SendHeadersSafelistAll(FALSE)
         => trace.http[1].requestHeaders = EmptyMap
    /\ (options.sendHeaders = NoSendHeaders /\ options.privateHeaders = PrivateBool(TRUE))
         => trace.http[1].requestHeaders = EmptyMap

\* privateHeaders: true alone, on a request with an ordinary header: none recorded.
C22_Witness ==
  /\ phase = "started"
  /\ options.sendHeaders = NoSendHeaders
  /\ options.privateHeaders = PrivateBool(TRUE)
  /\ CarriesOrdinaryHeader
  /\ trace.http[1].requestHeaders = EmptyMap

\* The spellings of one header name.
HeaderNameSpellings ==
  {{"authorization", "Authorization", "AUTHORIZATION"},
   {"cookie", "Cookie"},
   {"set-cookie", "Set-Cookie"},
   {"x-api-key", "X-Api-Key", "X-API-KEY"},
   {"accept", "Accept"}}

EqualIgnoringCase(x, y) ==
  x = y \/ \E spellings \in HeaderNameSpellings : x \in spellings /\ y \in spellings

\* The header is one of authorization, cookie and set-cookie.
IsSensitiveHeader(name) == \E s \in SensitiveHeaders : EqualIgnoringCase(name, s)

\* C23: with sendHeaders = {except: L}, a header of the request is recorded if
\* and only if its name equals no element of L when letter case is ignored and
\* it is not authorization, cookie or set-cookie; each recorded header carries
\* its value as a one-element list.
C23_ExceptListIgnoresCase ==
  (phase = "started" /\ options.sendHeaders.tag = "object"
     /\ options.sendHeaders.except # None) =>
    LET L == options.sendHeaders.except[1]
        recorded == trace.http[1].requestHeaders
    IN /\ DOMAIN recorded \subseteq DOMAIN req.headers
       /\ \A name \in DOMAIN req.headers :
            /\ name \in DOMAIN recorded
                 <=> /\ \A e \in L : ~EqualIgnoringCase(e, name)
                     /\ ~IsSensitiveHeader(name)
            /\ name \in DOMAIN recorded
                 => recorded[name] = [value |-> <<req.headers[name]>>]

\* The list names X-API-KEY in capitals and the request sent X-Api-Key and
\* accept: only accept is recorded.
C23_Witness ==
  /\ phase = "started"
  /\ options.sendHeaders = SendHeadersExcept({"X-API-KEY"})
  /\ DOMAIN req.headers = {"x-api-key", "accept"}
  /\ trace.http[1].requestHeaders = [name \in {"accept"} |-> [value |-> <<"value">>]]

(***************************************************************************)
(* Client identity: requestDidStart for every result of a configured       *)
(* generateClientInfo hook, and for the default one on requests with and   *)
(* without the client headers and the clientInfo extension.                *)
(***************************************************************************)
\* A field of the hook's result: missing (or null), the empty string, or a name.
ClientFieldValues == {None, Some(""), Some("web")}

\* What a configured hook returns: nothing, or an object with each field as above
\* (the object of three missing fields is {}).
ClientInfoResults ==
  {None} \cup {Some(ClientInfo(name, version, referenceId)) :
                 name \in ClientFieldValues, version \in ClientFieldValues,
                 referenceId \in ClientFieldValues}

ClientOptions ==
  {Options(NoSendHeaders, NoPrivate, NoSendVariableValues, NoPrivate, None, hook) :
     hook \in {None} \cup {Some(result) : result \in ClientInfoResults}}

\* The client headers of a request: each one absent, sent with an empty value,
\* or sent with a value.
ClientHeaderKeys ==
  {clientNameHeaderKey, clientVersionHeaderKey, clientReferenceIdHeaderKey}

ClientRawHeaders ==
  UNION {[names -> {"", "value"}] : names \in SUBSET ClientHeaderKeys}

ClientExtensions == {None, Some([clientInfo |-> Some(ClientInfo(Some("ext"), None, None))])}

ClientRequests ==
  {[RequestArg("POST", raw, None, Metrics(FALSE, FALSE), None)
      EXCEPT !.extensions = extensions] :
     raw \in ClientRawHeaders, extensions \in ClientExtensions}

InitClient == Constructed(ClientOptions, ClientRequests, RequestOnlyEnvs)

NextClient == RequestDidStart

SpecClient == InitClient /\ [][NextClient]_vars

ClientFields == {"clientName", "clientVersion", "clientReferenceId"}

\* C24: after requestDidStart, for every result of the generateClientInfo hook
\* (an object with some or all fields null or missing, an empty object, no
\* object at all), trace.clientName, trace.clientVersion and
\* trace.clientReferenceId are strings; a field the hook did not supply is ''
\* and a field it supplied is recorded.
C24_ClientIdentityAlwaysStrings ==
  phase = "started" =>
    /\ \A field \in ClientFields : trace[field] \in STRING
    /\ options.generateClientInfo # None =>
         LET result == options.generateClientInfo[1]
         IN \A field \in ClientFields :
              IF result = None \/ result[1][field] = None
              THEN trace[field] = ""
              ELSE trace[field] = result[1][field][1]

\* The hook returned a name and left the other two fields out.
C24_Witness ==
  /\ phase = "started"
  /\ options.generateClientInfo = Some(Some(ClientInfo(Some("web"), None, None)))
  /\ trace.clientName = "web"
  /\ trace.clientVersion = ""
  /\ trace.clientReferenceId = ""

(***************************************************************************)
(* Path keys: the resolvers of two response paths drawn from the valid     *)
(* paths over field names and indices of several lengths.  A valid field   *)
(* name holds no '.' and starts with no digit; an index is a natural       *)
(* number.                                                                 *)
(***************************************************************************)
ValidFieldNames == {"field", "subfield"}

ValidIndices == {2, 12}

ValidKeys ==
  {FieldKey(n) : n \in ValidFieldNames} \cup {IndexKey(i) : i \in ValidIndices}

RECURSIVE ValidPathsOfDepth(_)
ValidPathsOfDepth(d) ==
  IF d = 1
  THEN {[prev |-> None, key |-> FieldKey(n)] : n \in ValidFieldNames}
  ELSE {[prev |-> Some(p), key |-> k] : p \in ValidPathsOfDepth(d - 1), k \in ValidKeys}

\* info.path of a resolver call over the valid keys.
ValidFieldPaths ==
  {p \in UNION {ValidPathsOfDepth(d) : d \in 1..MaxDepth} : ~p.key.isIndex}

PathEnvs == {Env({p, q}, 0, FALSE, {}) : p \in ValidFieldPaths, q \in ValidFieldPaths}

InitPaths == Constructed(PlainOptions, LifecycleRequests, PathEnvs)

NextPaths ==
  \/ RequestDidStart
  \/ WillResolveField

SpecPaths == InitPaths /\ [][NextPaths]_vars

\* The path field -> 2 -> subfield.
FieldTwoSubfield ==
  [prev |-> Some([prev |-> Some([prev |-> None, key |-> FieldKey("field")]),
                  key |-> IndexKey(2)]),
   key |-> FieldKey("subfield")]

\* C25: responsePathAsString is injective on valid response paths: two
\* different paths, whether given to willResolveField or reached as an
\* ancestor, never get the same key; no path but the root's gets ''; the root
\* gets ''; and field -> 2 -> subfield gets "field.2.subfield".
C25_PathKeysInjective ==
  /\ \A p \in env.paths, q \in env.paths :
       responsePathAsString(Some(p)) = responsePathAsString(Some(q)) => p = q
  /\ \A n \in 1..Len(createdFor), m \in 1..Len(createdFor) :
       responsePathAsString(createdFor[n]) = responsePathAsString(createdFor[m])
         => createdFor[n] = createdFor[m]
  /\ \A n \in 1..Len(createdFor) :
       responsePathAsString(createdFor[n]) = "" <=> createdFor[n] = None
  /\ responsePathAsString(None) = ""
  /\ responsePathAsString(Some(FieldTwoSubfield)) = "field.2.subfield"

\* Two paths that end in the same field name were resolved and are registered
\* under two keys, for two nodes.
C25_Witness ==
  /\ "subfield" \in DOMAIN nodes
  /\ "field.subfield" \in DOMAIN nodes
  /\ nodes["subfield"] # nodes["field.subfield"]
  /\ createdFor[nodes["subfield"]] # createdFor[nodes["field.subfield"]]

(***************************************************************************)
(* The root entry: fields with and without unstarted ancestors, their      *)
(* completions, errors with and without a path, and the end of the         *)
(* request.                                                                *)
(***************************************************************************)
\* The response path with the given keys, from the root to the leaf.
RECURSIVE PathFromKeys(_)
PathFromKeys(keys) ==
  IF Len(keys) = 1 THEN [prev |-> None, key |-> keys[1]]
  ELSE [prev |-> Some(PathFromKeys(SubSeq(keys, 1, Len(keys) - 1))),
        key |-> keys[Len(keys)]]

\* The fields a and a.0.b.
RootPaths ==
  {PathFromKeys(<<FieldKey("a")>>),
   PathFromKeys(<<FieldKey("a"), IndexKey(0), FieldKey("b")>>)}

RootErrors ==
  {GraphQLError("boom", path, Some(<<[line |-> 1, column |-> 2]>>), None) :
     path \in {None, Some(<<FieldKey("a")>>)}}

RootEnvs == {Env(RootPaths, 0, FALSE, RootErrors)}

InitRoot == Constructed(PlainOptions, LifecycleRequests, RootEnvs)

NextRoot ==
  \/ RequestDidStart
  \/ WillResolveField
  \/ FieldDidEnd
  \/ DidEncounterErrors
  \/ EndHandler

SpecRoot == InitRoot /\ [][NextRoot]_vars

\* C27: in every state from construction to hand-off the registry maps the
\* empty-string key to trace.root: no willResolveField call, lazy construction
\* of a parent or attachment of an error replaces or removes that entry.
C27_RootAlwaysRegistered ==
  /\ "" \in DOMAIN nodes
  /\ nodes[""] = trace.root

\* A field with two unstarted ancestors was resolved, an error was attached and
\* the trace was handed off: the entry is still the root's.
C27_Witness ==
  /\ phase = "ended"
  /\ "a.0.b" \in DOMAIN nodes
  /\ CountErrors(heap, Len(heap)) > 0
  /\ nodes[""] = trace.root

\* What a node is, apart from its times: its name or index, its types and its
\* children in order.
ShapeOf(node) ==
  [fieldName |-> node.fieldName, index |-> node.index, type |-> node.type,
   parentType |-> node.parentType, child |-> node.child]

\* Nodes are numbered as they are created: a list is in creation order when
\* its numbers increase.
InCreationOrder(list) ==
  \A i \in DOMAIN list, j \in DOMAIN list : i < j => list[i] < list[j]

\* The step is the run of one completion callback.
CallbackStep == completed' # completed

\* C28: every child list is in the order in which the children were created,
\* and a completion callback changes no node's shape (name or index, type,
\* parentType, children and their order) and no registry entry: for a fixed
\* order of willResolveField calls every order of completions gives the same
\* tree.
C28_ChildOrderIsCreationOrder ==
  /\ [](\A n \in DOMAIN heap : InCreationOrder(heap[n].child))
  /\ [][CallbackStep =>
          /\ DOMAIN heap' = DOMAIN heap
          /\ \A n \in DOMAIN heap : ShapeOf(heap'[n]) = ShapeOf(heap[n])
          /\ nodes' = nodes]_vars

\* The fields a and b were started in this order and b completed first: the
\* root has the two children, a before b.
C28_Witness ==
  /\ Len(heap) = 3
  /\ heap[RootId].child = <<2, 3>>
  /\ heap[2].fieldName = Some("a")
  /\ heap[3].fieldName = Some("b")
  /\ completed = {3}
  /\ pending = {2}

\* The proper prefixes of a path: the paths of its ancestors.
RECURSIVE AncestorPaths(_)
AncestorPaths(p) ==
  IF p.prev = None THEN {} ELSE {p.prev[1]} \cup AncestorPaths(p.prev[1])

\* The ancestors of the path that the registry does not hold.
MissingAncestors(reg, p) ==
  {q \in AncestorPaths(p) : responsePathAsString(Some(q)) \notin DOMAIN reg}

\* A node as newNode leaves it for the key: the field name or the index set,
\* no types, zero times.
BlankFor(key, node) ==
  /\ node.fieldName = (IF key.isIndex THEN None ELSE Some(key.name))
  /\ node.index = (IF key.isIndex THEN Some(key.num) ELSE None)
  /\ node.type = ""
  /\ node.parentType = ""
  /\ node.startTime = 0
  /\ node.endTime = 0

\* C29: a willResolveField call on a path whose ancestors were not all started
\* creates, besides the field's node, one node for each missing ancestor,
\* registers each under the key of its path, and links the chain down from the
\* nearest registered ancestor, each new node as the last child of the node
\* registered for its parent path; every node made for an ancestor has its
\* field name or index from its path segment, empty type and parentType, and
\* zero startTime and endTime; no other node changes.
C29_MissingAncestorsSynthesized ==
  [][TreeGrows =>
       LET first == Len(heap) + 1
           path == createdFor'[first][1]
           missing == MissingAncestors(nodes, path)
           fresh == first..Len(heap')
           keyOf(n) == responsePathAsString(createdFor'[n])
           parentOf(n) == nodes'[responsePathAsString(createdFor'[n][1].prev)]
       IN /\ Len(heap') = Len(heap) + 1 + Cardinality(missing)
          /\ {createdFor'[n][1] : n \in fresh \ {first}} = missing
          /\ \A n \in fresh :
               /\ keyOf(n) \in DOMAIN nodes'
               /\ nodes'[keyOf(n)] = n
               /\ heap'[parentOf(n)].child =
                    Append(IF parentOf(n) \in fresh THEN <<>>
                           ELSE heap[parentOf(n)].child, n)
          /\ \A n \in fresh \ {first} :
               BlankFor(createdFor'[n][1].key, heap'[n])
          /\ \A k \in DOMAIN nodes :
               k \notin {keyOf(n) : n \in fresh} => nodes'[k] = nodes[k]
          /\ \A m \in DOMAIN heap :
               [heap'[m] EXCEPT !.child = heap[m].child] = heap[m]
          /\ \A m \in DOMAIN heap :
               (\A n \in fresh : parentOf(n) # m) => heap'[m] = heap[m]
     ]_vars

\* The field a.0.b was resolved first: the nodes of a and of a.0 were made for
\* it, blank, and are registered and linked root -> a -> 0 -> b.
C29_Witness ==
  /\ Len(heap) = 4
  /\ DOMAIN nodes = {"", "a", "a.0", "a.0.b"}
  /\ nodes["a.0.b"] \in pending
  /\ heap[nodes["a.0"]].index = Some(0)
  /\ heap[nodes["a"]].type = ""
  /\ heap[RootId].child = <<nodes["a"]>>
  /\ heap[nodes["a"]].child = <<nodes["a.0"]>>
  /\ heap[nodes["a.0"]].child = <<nodes["a.0.b"]>>

\* C30: the mutual recursion of newNode and ensureParentNode ends for every
\* path and every reachable registry: one willResolveField call on a path of d
\* keys creates at least one and at most d nodes, each for the path itself or
\* for one of its ancestors, none for anything before the first key, and no
\* ancestor twice.
C30_RecursionBoundedByDepth ==
  [][TreeGrows =>
       LET first == Len(heap) + 1
           fresh == first..Len(heap')
           path == createdFor'[first]
       IN /\ path # None
          /\ Len(heap') - Len(heap) <= Depth(path[1])
          /\ \A n \in fresh :
               /\ createdFor'[n] # None
               /\ createdFor'[n][1] \in {path[1]} \cup AncestorPaths(path[1])
               /\ \A m \in fresh : createdFor'[m] = createdFor'[n] => m = n
     ]_vars

\* A call on a path of three keys, made when the registry held the root alone,
\* created three nodes and stopped at the root.
C30_Witness ==
  /\ Len(heap) = 4
  /\ Depth(createdFor[2][1]) = 3
  /\ pending = {2}
  /\ Cardinality(DOMAIN nodes) = 4
  /\ createdFor[1] = None

(***************************************************************************)
(* Two requests.  Each request gets its own extension instance; the hooks   *)
(* of the two requests are called in any interleaving, one hook at a time.  *)
(* The variables hold the fields of the instance whose hook runs, `peer`    *)
(* those of the other one.                                                  *)
(***************************************************************************)
\* The fields of the running instance.
ThisInstance ==
  [phase |-> phase, trace |-> trace, nodes |-> nodes, heap |-> heap, tick |-> tick,
   pending |-> pending, explicitOperationName |-> explicitOperationName,
   queryString |-> queryString, documentAST |-> documentAST,
   addTraceCalls |-> addTraceCalls, createdFor |-> createdFor,
   completed |-> completed, clientErrors |-> clientErrors,
   thisOperationName |-> thisOperationName, hookCalls |-> hookCalls]

\* A class whose registry is a static field: one Map for every instance.
ResumedOnStaticRegistry(saved, running) == [saved EXCEPT !.nodes = running.nodes]

\* What `this` refers to when a hook of the other request is called: every field
\* is a field of the instance, initialised per instance, so the instance finds
\* what it left.
Resumed(saved, running) == saved

\* The pipeline goes on with a hook of the other request.
SwitchInstance ==
  /\ TwoRequests
  /\ LET this == Resumed(peer, ThisInstance)
     IN /\ phase' = this.phase
        /\ trace' = this.trace
        /\ nodes' = this.nodes
        /\ heap' = this.heap
        /\ tick' = this.tick
        /\ pending' = this.pending
        /\ explicitOperationName' = this.explicitOperationName
        /\ queryString' = this.queryString
        /\ documentAST' = this.documentAST
        /\ addTraceCalls' = this.addTraceCalls
        /\ createdFor' = this.createdFor
        /\ completed' = this.completed
        /\ clientErrors' = this.clientErrors
        /\ thisOperationName' = this.thisOperationName
        /\ hookCalls' = this.hookCalls
  /\ peer' = ThisInstance
  /\ UNCHANGED <<options, req, env>>

\* The field a.b, whose parent a is made for it by the first call.
TwoRequestPaths == {PathFromKeys(<<FieldKey("a"), FieldKey("b")>>)}

TwoRequestEnvs == {Env(TwoRequestPaths, 0, FALSE, {})}

InitTwo == ConstructedTwice(PlainOptions, LifecycleRequests, TwoRequestEnvs)

NextTwo ==
  \/ RequestDidStart
  \/ WillResolveField
  \/ FieldDidEnd
  \/ EndHandler
  \/ SwitchInstance

SpecTwo == InitTwo /\ [][NextTwo]_vars

\* The registry keys a request's calls produce when they run alone: the root's
\* key, and for each willResolveField call the key of its path and of every
\* ancestor of it.
RECURSIVE KeysAfter(_, _)
KeysAfter(log, k) ==
  IF k = 0 THEN {""}
  ELSE IF log[k].hook = "willResolveField"
  THEN KeysAfter(log, k - 1)
         \cup {responsePathAsString(log[k].path)}
         \cup {responsePathAsString(Some(q)) : q \in AncestorPaths(log[k].path[1])}
  ELSE KeysAfter(log, k - 1)

\* The nodes a request's calls create when they run alone: the root, and for
\* each willResolveField call one node and one more per ancestor not yet keyed.
RECURSIVE NodesAfter(_, _)
NodesAfter(log, k) ==
  IF k = 0 THEN 1
  ELSE IF log[k].hook = "willResolveField"
  THEN NodesAfter(log, k - 1) + 1
         + Cardinality({q \in AncestorPaths(log[k].path[1]) :
                          responsePathAsString(Some(q)) \notin KeysAfter(log, k - 1)})
  ELSE NodesAfter(log, k - 1)

HandOffsIn(log) == Cardinality({k \in DOMAIN log : log[k].hook = "end"})

\* The instance is where its own calls alone put it.
AsAlone(instance) ==
  LET log == instance.hookCalls
  IN /\ DOMAIN instance.nodes = KeysAfter(log, Len(log))
     /\ Len(instance.heap) = NodesAfter(log, Len(log))
     /\ Len(instance.addTraceCalls) = HandOffsIn(log)
     /\ instance.phase = (IF log = <<>> THEN "created"
                          ELSE IF HandOffsIn(log) > 0 THEN "ended" ELSE "started")

\* C26: two instances serving two requests share no state.  In every
\* interleaving of the two requests' hook calls, the registry, the tree and
\* the hand-offs of each instance are those its own calls produce alone; two
\* instances that got the same calls in the same order have the same trace,
\* registry, tree and hand-off arguments; and a hook of one request changes no
\* field of the other instance, which finds every field as it left it when its
\* next hook is called.
C26_InstancesShareNoState ==
  /\ [](/\ AsAlone(ThisInstance)
        /\ AsAlone(peer)
        /\ hookCalls = peer.hookCalls => ThisInstance = peer)
  /\ [][peer' # peer => (ThisInstance' = peer /\ peer' = ThisInstance)]_vars

\* One request resolved a.b twice and is still running; the other resolved it
\* once, on its own registry, and has handed its trace off.
C26_Witness ==
  /\ phase = "started"
  /\ Len(heap) = 4
  /\ addTraceCalls = <<>>
  /\ peer.phase = "ended"
  /\ Len(peer.heap) = 3
  /\ Len(peer.addTraceCalls) = 1
  /\ DOMAIN peer.nodes = {"", "a", "a.b"}

\* C31: every node but the root has exactly one of fieldName and index set:
\* index, to the number, when the last segment of its path is a number,
\* fieldName, to the string, when it is a string; the root has neither.
C31_FieldNameXorIndex ==
  /\ heap[RootId].fieldName = None
  /\ heap[RootId].index = None
  /\ \A n \in NodeIds \ {RootId} :
       LET key == createdFor[n][1].key
       IN /\ (heap[n].fieldName = None) # (heap[n].index = None)
          /\ IF key.isIndex
             THEN heap[n].index = Some(key.num)
             ELSE heap[n].fieldName = Some(key.name)

\* A list element and a field below it both have their node: the one with the
\* index alone, the other with the name alone.
C31_Witness ==
  \E n \in NodeIds, m \in NodeIds :
    /\ heap[n].index = Some(0)
    /\ heap[n].fieldName = None
    /\ heap[n].child = <<m>>
    /\ heap[m].fieldName = Some("b")
    /\ heap[m].index = None
    /\ m \in completed

\* The header a field of the client identity is read from.
HeaderOfClientField(field) ==
  CASE field = "clientName" -> clientNameHeaderKey
    [] field = "clientVersion" -> clientVersionHeaderKey
    [] field = "clientReferenceId" -> clientReferenceIdHeaderKey

\* The value a source gives for a field, '' when it gives none.
FromHeaders(field) ==
  IF HeaderOfClientField(field) \in DOMAIN req.headers
  THEN req.headers[HeaderOfClientField(field)] ELSE ""

FromExtensions(field) ==
  IF req.extensions[1].clientInfo[1][field] = None THEN ""
  ELSE req.extensions[1].clientInfo[1][field][1]

\* C32: with the default client-info generator the client identity comes from
\* the three apollographql-client-* headers whenever at least one of them is
\* present, extensions.clientInfo being ignored then, also for the fields
\* whose header is missing; it comes from extensions.clientInfo only when
\* none of the three headers is present; and the three fields are empty when
\* neither source is present.
C32_HeadersBeforeExtensions ==
  (phase = "started" /\ options.generateClientInfo = None) =>
    \A field \in ClientFields :
      IF ClientHeaderKeys \cap DOMAIN req.headers # {}
      THEN trace[field] = FromHeaders(field)
      ELSE IF req.extensions # None /\ req.extensions[1].clientInfo # None
      THEN trace[field] = FromExtensions(field)
      ELSE trace[field] = ""

\* Node p was started by willResolveField before its child n was.
StartedBefore(p, n) ==
  /\ p \in StartedNodes
  /\ n \in StartedNodes
  /\ ChildOccurrences(p, n) > 0
  /\ p < n

\* C33: every recorded time is a delta from the baseline taken in
\* requestDidStart, so on a clock that never goes back: every node whose
\* completion callback has run has 0 <= startTime <= endTime; when the end
\* handler runs, every node whose callback ran before it has
\* endTime <= trace.durationNs; and a node started by willResolveField after
\* its parent was started has startTime >= its parent's startTime.
C33_TimesAreOrderedDeltas ==
  /\ [](\A n \in completed :
          /\ 0 <= heap[n].startTime
          /\ heap[n].startTime <= heap[n].endTime)
  /\ [](\A p \in NodeIds, n \in NodeIds :
          StartedBefore(p, n) => heap[n].startTime >= heap[p].startTime)
  /\ [][(phase = "started" /\ phase' = "ended") =>
          \A n \in completed : heap'[n].endTime <= trace'.durationNs]_vars

\* The field a was started at the baseline and its child a.b later; both
\* completed before the end handler, which measured a positive duration.
C33_Witness ==
  /\ phase = "ended"
  /\ trace.durationNs > 0
  /\ \E p \in completed, n \in completed :
       /\ StartedBefore(p, n)
       /\ heap[p].startTime = 0
       /\ heap[n].startTime > 0
       /\ heap[n].endTime = trace.durationNs
       /\ heap[p].endTime = trace.durationNs




====
